---- MODULE Spec2Model ----
(***************************************************************************)
(* Credit ledger and request orchestrator of the image-generation backend. *)
(*                                                                         *)
(* The document store is the external collaborator: per-document reads and *)
(* writes, and multi-document transactions that commit atomically and are  *)
(* re-run when a document they read was written in the meantime.  Every    *)
(* store call may also raise.                                              *)
(***************************************************************************)
EXTENDS Integers, Sequences, FiniteSets, TLC

(* ------------------------------ bounds --------------------------------- *)

MaxHandlers == 2
MaxCreates == 2
MaxInitialCredits == 4
MaxCalls == 2
MaxAmount == 3
MaxDocs == 3

Users == {"u1", "u2"}
Handlers == 1 .. MaxHandlers

\* The initial grant tried: it covers one 1024x1792 request, or a 1024x1024
\* and a 512x512 one, but not two 1024x1024 requests.
InitialCredits == {MaxInitialCredits}

\* The amounts and request ids tried in direct calls of the ledger.
Amounts == {1, MaxAmount}
RequestIds == Handlers

\* The limit of get_transaction_history when the caller gives none.
DefaultLimit == 50

\* Report runs, and the clock: a day is TicksPerDay ticks and a report covers
\* ReportDays days.
MaxJobs == 2
Jobs == 1 .. MaxJobs
TicksPerDay == 2
ReportDays == 7
Week == ReportDays * TicksPerDay
Limits == {1, 2, DefaultLimit}

\* Invocations are numbered in the order they arrive.
Arrived(procs, i) == IF i = 1 THEN TRUE ELSE procs[i - 1].pc # "idle"

(* --------------------------- validators -------------------------------- *)

VALID_MODELS == {"Model A", "Model B"}
VALID_STYLES == {"realistic", "anime", "oil painting", "sketch", "cyberpunk",
                 "watercolor"}
VALID_COLORS == {"vibrant", "monochrome", "pastel", "neon", "vintage"}
VALID_SIZES == {"512x512", "1024x1024", "1024x1792"}

\* A cost table that lacks the largest size.
CREDIT_COSTS_two_sizes ==
    [s \in {"512x512", "1024x1024"} |->
       CASE s = "512x512" -> 1 [] s = "1024x1024" -> 3]

CREDIT_COSTS == [s \in VALID_SIZES |->
                   CASE s = "512x512"   -> 1
                     [] s = "1024x1024" -> 3
                     [] s = "1024x1792" -> 4]

\* Python's None: the value of dict.get for a missing key, and
\* previous_report when the lookup finds no document.
None == [none |-> TRUE]

\* A value of type Optional[int] that is an int.
Some(n) == [none |-> FALSE, value |-> n]

\* CREDIT_COSTS.get(size)
get_credit_cost(size) ==
    IF size \in DOMAIN CREDIT_COSTS THEN Some(CREDIT_COSTS[size]) ELSE None

\* The longest prompt accepted, in characters after stripping.
MaxPromptLength == 1000

\* A JSON value of the request body.  A string is kept as its stripped
\* content, the content's length and the number of whitespace characters
\* around it; of a prompt only the length matters.
Str(text) == [kind |-> "str", text |-> text, len |-> Len(text), pad |-> 0]
Padded(text, pad) ==
    [kind |-> "str", text |-> text, len |-> Len(text), pad |-> pad]
Prompt(len) == [kind |-> "str", text |-> "prompt", len |-> len, pad |-> 0]
PaddedPrompt(len, pad) ==
    [kind |-> "str", text |-> "prompt", len |-> len, pad |-> pad]
Number == [kind |-> "number"]

RECURSIVE Spaces(_)
Spaces(n) == IF n = 0 THEN "" ELSE " " \o Spaces(n - 1)

\* The characters of a str value as the body carries them.
Raw(s) == Spaces(s.pad) \o s.text

\* len(s): the characters of the content and those around it.
length(s) == s.len + s.pad

\* A strip() that removes nothing.
strip_nothing(s) == s

\* str.strip()
strip(s) == [s EXCEPT !.pad = 0]

\* value in LIST, for a list of strings
In(value, list) == value.kind = "str" /\ value.pad = 0 /\ value.text \in list

required_fields == <<"userId", "model", "style", "color", "size", "prompt">>

Valid == [raised |-> FALSE, valid |-> TRUE, error |-> ""]
Invalid(error) == [raised |-> FALSE, valid |-> FALSE, error |-> error]
Raises == [raised |-> TRUE, valid |-> FALSE, error |-> ""]

RECURSIVE CheckRequired(_, _)
\* Lines 37-46, from the i-th required field on: the error found, or "".
CheckRequired(data, i) ==
    IF i > Len(required_fields) THEN ""
    ELSE LET field == required_fields[i]
         IN IF field \notin DOMAIN data
            THEN "Missing required field: " \o field
            ELSE IF /\ field \in {"userId", "prompt"}
                    /\ data[field].kind = "str"
                    /\ length(strip(data[field])) = 0
            THEN (IF field = "userId" THEN "userId cannot be empty"
                  ELSE "Prompt cannot be empty")
            ELSE CheckRequired(data, i + 1)

\* RequestValidator.validate_generation_request.  strip() of a userId or a
\* prompt that is no string raises AttributeError.
validate_generation_request(data) ==
    LET error == CheckRequired(data, 1)
    IN IF error # "" THEN Invalid(error)
       ELSE IF data.userId.kind # "str" THEN Raises
       ELSE IF length(strip(data.userId)) = 0
       THEN Invalid("userId cannot be empty")
       ELSE IF ~In(data.model, VALID_MODELS) THEN Invalid("Invalid model")
       ELSE IF ~In(data.style, VALID_STYLES) THEN Invalid("Invalid style")
       ELSE IF ~In(data.color, VALID_COLORS) THEN Invalid("Invalid color")
       ELSE IF ~In(data.size, VALID_SIZES) THEN Invalid("Invalid size")
       ELSE IF data.prompt.kind # "str" THEN Raises
       ELSE IF length(strip(data.prompt)) = 0 THEN Invalid("Prompt cannot be empty")
       ELSE IF length(strip(data.prompt)) > MaxPromptLength
       THEN Invalid("Prompt must be less than 1000 characters")
       ELSE Valid

(* ------------------------------ requests ------------------------------- *)

\* req.get_json(): no body, an empty object, or an object.
Null == [null |-> TRUE]
EmptyObject == <<>>

Request(method, body) == [method |-> method, body |-> body]
NoRequest == Request("none", Null)

\* A body that passes validation, with a prompt of the greatest length.
ValidPayload(user_id, size) ==
    [userId |-> Str(user_id), model |-> Str("Model A"),
     style |-> Str("realistic"), color |-> Str("vibrant"), size |-> Str(size),
     prompt |-> Prompt(MaxPromptLength)]

Without(data, field) == [f \in DOMAIN data \ {field} |-> data[f]]

\* Bodies with one defect each.
InvalidPayloads ==
    LET data == ValidPayload("u1", "512x512")
    IN {Without(data, required_fields[i]) : i \in DOMAIN required_fields}
       \cup {[data EXCEPT !.userId = Padded("", 2)],
             [data EXCEPT !.userId = Number],
             [data EXCEPT !.model = Str("Model C")],
             [data EXCEPT !.style = Str("cubist")],
             [data EXCEPT !.color = Str("sepia")],
             [data EXCEPT !.size = Str("256x256")],
             [data EXCEPT !.prompt = Prompt(0)],
             [data EXCEPT !.prompt = Prompt(MaxPromptLength + 1)],
             [data EXCEPT !.prompt = Number]}

\* The requests tried that are no valid POST.
BadRequests ==
    {Request("GET", Null), Request("POST", Null), Request("POST", EmptyObject)}
    \cup {Request("POST", data) : data \in InvalidPayloads}

(* ----------------------------- documents ------------------------------- *)

\* A snapshot of users/<id>: absent, or present with its credits field.
NoDoc == [exists |-> FALSE]
UserDoc(c) == [exists |-> TRUE, credits |-> c]
\* The same with the optional email field.
UserDocWithEmail(c, email) == [exists |-> TRUE, credits |-> c, email |-> email]

\* CreditTransaction.to_dict(), but for its timestamp.
CreditTransaction(user_id, type, credits, generation_request_id) ==
    [userId |-> user_id, type |-> type, credits |-> credits,
     generationRequestId |-> generation_request_id]

\* A document of credit_transactions: the record with its timestamp.  The
\* clock is read when the record is written; the time between the record's
\* construction and its write is not modelled.
Stamped(doc, timestamp) ==
    [userId |-> doc.userId, type |-> doc.type, credits |-> doc.credits,
     generationRequestId |-> doc.generationRequestId,
     timestamp |-> timestamp]
Unstamped(doc) ==
    CreditTransaction(doc.userId, doc.type, doc.credits,
                      doc.generationRequestId)

RECURSIVE Latest(_, _)
\* The greatest timestamp among the first n documents, 0 when there is none.
Latest(docs, n) ==
    IF n = 0 THEN 0
    ELSE LET rest == Latest(docs, n - 1)
         IN IF docs[n].timestamp > rest THEN docs[n].timestamp ELSE rest

\* datetime.now(timezone.utc): later than every timestamp stored.
Now(docs) == Latest(docs, Len(docs)) + 1

\* credit_transactions written by create_user_with_credits carry no request id.
NoRequestId == 0

\* GenerationRequest.to_dict(): status defaults to pending.
GenerationRequest(user_id, size, credits_charged) ==
    [exists |-> TRUE, userId |-> user_id, size |-> size,
     creditsCharged |-> credits_charged, status |-> "pending"]

(* ------------------------------ state ---------------------------------- *)

VARIABLES
    users,                \* collection users: user id -> snapshot
    credit_transactions,  \* collection credit_transactions, in commit order
    generation_requests,  \* collection generation_requests: request id -> doc
    handler,              \* one createGenerationRequest invocation each
    creator,              \* the caller of create_user_with_credits
    client,               \* a caller of the Credit Ledger's other operations
    weekly_reports,       \* collection weekly_reports, in write order
    now,                  \* the clock, in ticks since a Monday 00:00 UTC
    job                   \* the invocations of scheduleWeeklyReport

report_vars == <<weekly_reports, now, job>>

vars == <<users, credit_transactions, generation_requests, handler, creator,
          client, weekly_reports, now, job>>

NoResponse == [status |-> 0]

IdleHandler ==
    [pc |-> "idle", request |-> NoRequest, user_id |-> "u1", size |-> "512x512", credit_cost |-> 0,
     user_credits |-> 0, tx_open |-> FALSE, tx_valid |-> FALSE,
     read |-> NoDoc, success |-> "unset", staged |-> <<>>,
     refund_read |-> NoDoc, refund_staged |-> <<>>, refunded |-> "unset",
     gateway |-> "none", e |-> "none", response |-> NoResponse]

\* A finished invocation: its answer, and what it saw and did on the way; its
\* transaction objects are closed.
Returned(me, response) ==
    [me EXCEPT !.pc = "done", !.tx_open = FALSE, !.tx_valid = FALSE,
               !.refund_read = NoDoc, !.refund_staged = <<>>,
               !.response = response]

\* create_user_with_credits is called one call at a time; calls counts them.
\* The email argument of create_user_with_credits when one is passed.
Email == Some("user@example.com")

\* emails: the values this caller passes for the email argument.
IdleCreator ==
    [pc |-> "idle", user_id |-> "u1", initial_credits |-> 0, email |-> None,
     result |-> "unset", raised |-> FALSE, calls |-> 0, emails |-> {None}]

CreatorReturned(me, result) ==
    [IdleCreator EXCEPT !.result = result, !.raised = me.raised,
                        !.calls = me.calls, !.emails = me.emails]

\* A caller of refund_credits, get_user_credits and get_transaction_history;
\* one call at a time, calls counts them.
NoResult == [returned |-> FALSE]
Result(value) == [returned |-> TRUE, value |-> value]

IdleClient ==
    [pc |-> "idle", op |-> "none", user_id |-> "u1", amount |-> 0,
     request_id |-> 0, limit |-> 0, tx_open |-> FALSE, tx_valid |-> FALSE,
     read |-> NoDoc, staged |-> <<>>, raised |-> FALSE, result |-> NoResult,
     calls |-> 0]

\* A finished call: its arguments, whether the store raised, and its value.
ClientReturned(me, result) ==
    [IdleClient EXCEPT !.op = me.op, !.user_id = me.user_id,
                       !.amount = me.amount, !.request_id = me.request_id,
                       !.limit = me.limit, !.raised = me.raised,
                       !.result = result, !.calls = me.calls]

\* The start of a call.
Called(me, op, user_id, amount, request_id, limit) ==
    [IdleClient EXCEPT !.pc = op, !.op = op, !.user_id = user_id,
                       !.amount = amount, !.request_id = request_id,
                       !.limit = limit, !.calls = me.calls + 1]

\* A scheduleWeeklyReport invocation and the locals of generate_weekly_report.
IdleJob ==
    [pc |-> "idle", start_date |-> 0, end_date |-> 0,
     total_requests |-> 0, successful_requests |-> 0, failed_requests |-> 0,
     requests_by_model |-> <<>>, requests_by_size |-> <<>>,
     requests_by_style |-> <<>>, requests_by_color |-> <<>>,
     credits_by_size |-> <<>>,
     total_credits_consumed |-> 0, total_credits_refunded |-> 0,
     previous_report |-> None, anomaly_error |-> FALSE, e |-> "none",
     anomalies |-> <<>>, raised |-> FALSE, result |-> NoResult]

\* No report has been written and no run has started; the clock stands at
\* the first Monday 00:00 after the origin.
NoReports ==
    /\ weekly_reports = <<>>
    /\ now = Week
    /\ job = [j \in Jobs |-> IdleJob]

Init ==
    /\ NoReports
    /\ users = [u \in Users |-> NoDoc]
    /\ credit_transactions = <<>>
    /\ generation_requests = [r \in Handlers |-> NoDoc]
    /\ handler = [h \in Handlers |-> IdleHandler]
    /\ creator = IdleCreator
    /\ client = IdleClient

(* --------------------------- the store --------------------------------- *)

\* Writes staged on a transaction, applied together when it commits.
UserWrite(user_id, credits) ==
    [kind |-> "user", userId |-> user_id, credits |-> credits]
\* transaction.update(user_ref, {credits, updatedAt}): the other fields stay.
UserUpdate(user_id, credits) ==
    [kind |-> "user_update", userId |-> user_id, credits |-> credits]
TxnWrite(doc) == [kind |-> "txn", doc |-> doc]
RequestWrite(request_id, doc) ==
    [kind |-> "request", requestId |-> request_id, doc |-> doc]

Store == [users |-> users, credit_transactions |-> credit_transactions,
          generation_requests |-> generation_requests]

ApplyWrite(store, w) ==
    CASE w.kind = "user" ->
           [store EXCEPT !.users[w.userId] = UserDoc(w.credits)]
      [] w.kind = "user_update" ->
           [store EXCEPT !.users[w.userId] = [@ EXCEPT !.credits = w.credits]]
      [] w.kind = "txn" ->
           [store EXCEPT !.credit_transactions =
                             Append(@, Stamped(w.doc, Now(@)))]
      [] w.kind = "request" ->
           [store EXCEPT !.generation_requests[w.requestId] = w.doc]

RECURSIVE ApplyWrites(_, _)
ApplyWrites(store, writes) ==
    IF writes = <<>> THEN store
    ELSE ApplyWrites(ApplyWrite(store, Head(writes)), Tail(writes))

\* A write to users/<user_id> invalidates every other open transaction that
\* has read that document; the store makes it re-run at commit.
Invalidate(hs, user_id, self) ==
    [h \in Handlers |->
        IF h # self /\ hs[h].tx_open /\ hs[h].user_id = user_id
        THEN [hs[h] EXCEPT !.tx_valid = FALSE]
        ELSE hs[h]]

\* The same for the open transaction of the ledger's direct caller.
InvalidateClient(c, user_id) ==
    IF c.tx_open /\ c.user_id = user_id THEN [c EXCEPT !.tx_valid = FALSE]
    ELSE c

(* --------------------------- Credit Ledger ----------------------------- *)

\* CreditService.get_user_credits: 0 for an absent account and on a store error.
get_user_credits(doc, raised) ==
    IF raised THEN 0
    ELSE IF doc.exists THEN doc.credits ELSE 0

\* deduct_credits without the balance check inside the transaction.
deduct_credits_unchecked(doc, raised, user_id, amount, generation_request_id) ==
    IF raised THEN [success |-> FALSE, writes |-> <<>>]
    ELSE IF ~doc.exists THEN [success |-> FALSE, writes |-> <<>>]
    ELSE [success |-> TRUE,
          writes |-> << UserUpdate(user_id, doc.credits - amount),
                        TxnWrite(CreditTransaction(user_id, "deduction", amount,
                                                   generation_request_id)) >>]

\* deduct_credits that forgets the transaction record.
deduct_credits_no_record(doc, raised, user_id, amount, generation_request_id) ==
    IF raised THEN [success |-> FALSE, writes |-> <<>>]
    ELSE IF ~doc.exists THEN [success |-> FALSE, writes |-> <<>>]
    ELSE IF doc.credits < amount THEN [success |-> FALSE, writes |-> <<>>]
    ELSE [success |-> TRUE,
          writes |-> << UserUpdate(user_id, doc.credits - amount) >>]

\* deduct_credits that refuses a balance equal to the amount.
deduct_credits_strict(doc, raised, user_id, amount, generation_request_id) ==
    IF raised THEN [success |-> FALSE, writes |-> <<>>]
    ELSE IF ~doc.exists THEN [success |-> FALSE, writes |-> <<>>]
    ELSE IF doc.credits <= amount THEN [success |-> FALSE, writes |-> <<>>]
    ELSE [success |-> TRUE,
          writes |-> << UserUpdate(user_id, doc.credits - amount),
                        TxnWrite(CreditTransaction(user_id, "deduction", amount,
                                                   generation_request_id)) >>]

\* CreditService.deduct_credits on the snapshot read inside the transaction:
\* the value returned and the writes staged.
deduct_credits(doc, raised, user_id, amount, generation_request_id) ==
    IF raised THEN [success |-> FALSE, writes |-> <<>>]
    ELSE IF ~doc.exists THEN [success |-> FALSE, writes |-> <<>>]
    ELSE IF doc.credits < amount THEN [success |-> FALSE, writes |-> <<>>]
    ELSE [success |-> TRUE,
          writes |-> << UserUpdate(user_id, doc.credits - amount),
                        TxnWrite(CreditTransaction(user_id, "deduction", amount,
                                                   generation_request_id)) >>]

RECURSIVE NewestFirst_ascending(_, _)
\* The documents at positions S ordered by timestamp, oldest first.
NewestFirst_ascending(docs, S) ==
    IF S = {} THEN <<>>
    ELSE LET i == CHOOSE i \in S :
                      \A j \in S : docs[j].timestamp >= docs[i].timestamp
         IN <<docs[i]>> \o NewestFirst_ascending(docs, S \ {i})

RECURSIVE NewestFirst(_, _)
\* order_by("timestamp", DESCENDING) over the documents at positions S.
NewestFirst(docs, S) ==
    IF S = {} THEN <<>>
    ELSE LET i == CHOOSE i \in S :
                      \A j \in S : docs[j].timestamp <= docs[i].timestamp
         IN <<docs[i]>> \o NewestFirst(docs, S \ {i})

\* get_transaction_history that returns what it had read before the error.
get_transaction_history_partial(docs, user_id, limit, raised) ==
    LET found == NewestFirst(docs, {i \in DOMAIN docs :
                                       docs[i].userId = user_id})
    IN IF raised THEN SubSeq(found, 1, IF Len(found) > 0 THEN 1 ELSE 0)
       ELSE SubSeq(found, 1, IF limit < Len(found) THEN limit
                             ELSE Len(found))

\* CreditService.get_transaction_history: the user's documents, newest
\* first, cut to limit; the empty list on a store error.
get_transaction_history(docs, user_id, limit, raised) ==
    IF raised THEN <<>>
    ELSE LET found == NewestFirst(docs, {i \in DOMAIN docs :
                                            docs[i].userId = user_id})
         IN SubSeq(found, 1, IF limit < Len(found) THEN limit
                             ELSE Len(found))

\* refund_transaction that sets the balance to the amount in both branches.
refund_transaction_overwrite(doc, user_id, amount, generation_request_id) ==
    << UserWrite(user_id, amount),
       TxnWrite(CreditTransaction(user_id, "refund", amount,
                                  generation_request_id)) >>

\* refund_transaction inside CreditService.refund_credits: the writes staged.
refund_transaction(doc, user_id, amount, generation_request_id) ==
    << IF ~doc.exists THEN UserWrite(user_id, amount)
       ELSE UserUpdate(user_id, doc.credits + amount),
       TxnWrite(CreditTransaction(user_id, "refund", amount,
                                  generation_request_id)) >>

(* ------------------------- responses ----------------------------------- *)

\* str(e) of the exception caught by the handler's inner except clause: one
\* of the gateway's messages, or the text of a store exception.
GatewayError == "Model inference error"
StoreError == "store exception text"

InsufficientCredits(required, available) ==
    [status |-> 402, error |-> "Insufficient credits",
     required |-> required, available |-> available]
Success(request_id, deducted) ==
    [status |-> 200, generationRequestId |-> request_id,
     deductedCredits |-> deducted]
GenerationFailed(details, refunded) ==
    [status |-> 500, error |-> "Image generation failed",
     details |-> details, creditsRefunded |-> refunded]
InternalError == [status |-> 500, error |-> "Internal server error"]
MethodNotAllowed == [status |-> 405, error |-> "Method not allowed"]
BadRequest(error) == [status |-> 400, error |-> error]

\* Lines 52-76 of createGenerationRequest: the answer given before the
\* payload is used, NoResponse when the request goes on.  An exception of the
\* validator is caught by the outer except clause.
EarlyResponse(req) ==
    IF req.method # "POST" THEN MethodNotAllowed
    ELSE IF req.body = Null \/ DOMAIN req.body = {}
    THEN BadRequest("Invalid request body")
    ELSE LET validation_result == validate_generation_request(req.body)
         IN IF validation_result.raised THEN InternalError
            ELSE IF ~validation_result.valid
            THEN BadRequest(validation_result.error)
            ELSE NoResponse

BoolStr(b) == IF b THEN "True" ELSE "False"

(* ---------------------- createGenerationRequest ------------------------ *)

\* Lines 52-76 for a request that is answered there.
RejectRequest(h) ==
    /\ handler[h].pc = "idle"
    /\ Arrived(handler, h)
    /\ \E req \in BadRequests :
         /\ EarlyResponse(req) # NoResponse
         /\ handler' = [handler EXCEPT ![h] =
                Returned([handler[h] EXCEPT !.request = req],
                         EarlyResponse(req))]
    /\ UNCHANGED <<users, credit_transactions, generation_requests, creator,
                   client>>
    /\ UNCHANGED report_vars

\* The balance check with <= in place of <.
CheckCredits_strict(h) ==
    /\ handler[h].pc = "idle"
    /\ Arrived(handler, h)
    /\ \E u \in Users, size \in VALID_SIZES, raised \in BOOLEAN :
         LET req == Request("POST", ValidPayload(u, size))
             credit_cost == get_credit_cost(req.body.size.text).value
             user_credits == get_user_credits(users[u], raised)
             me == [handler[h] EXCEPT !.request = req,
                                      !.user_id = req.body.userId.text,
                                      !.size = req.body.size.text,
                                      !.credit_cost = credit_cost,
                                      !.user_credits = user_credits]
         IN /\ EarlyResponse(req) = NoResponse
            /\ handler' = [handler EXCEPT ![h] =
                   IF user_credits <= credit_cost
                   THEN Returned(me, InsufficientCredits(credit_cost,
                                                         user_credits))
                   ELSE [me EXCEPT !.pc = "charge"]]
    /\ UNCHANGED <<users, credit_transactions, generation_requests, creator,
                 client>>
    /\ UNCHANGED report_vars

\* Lines 52-102 for a request that passes validation: the validated payload,
\* the credit cost and the balance check.
CheckCredits(h) ==
    /\ handler[h].pc = "idle"
    /\ Arrived(handler, h)
    /\ \E u \in Users, size \in VALID_SIZES, raised \in BOOLEAN :
         LET req == Request("POST", ValidPayload(u, size))
             credit_cost == get_credit_cost(req.body.size.text).value
             user_credits == get_user_credits(users[u], raised)
             me == [handler[h] EXCEPT !.request = req,
                                      !.user_id = req.body.userId.text,
                                      !.size = req.body.size.text,
                                      !.credit_cost = credit_cost,
                                      !.user_credits = user_credits]
         IN /\ EarlyResponse(req) = NoResponse
            /\ handler' = [handler EXCEPT ![h] =
                   IF user_credits < credit_cost
                   THEN Returned(me, InsufficientCredits(credit_cost,
                                                         user_credits))
                   ELSE [me EXCEPT !.pc = "charge"]]
    /\ UNCHANGED <<users, credit_transactions, generation_requests, creator,
                 client>>
    /\ UNCHANGED report_vars

\* create_request_transaction that goes on when deduct_credits returned False.
RunChargeTransaction_no_raise(h, raised) ==
    LET me == handler[h]
        d  == deduct_credits(users[me.user_id], raised, me.user_id,
                             me.credit_cost, h)
    IN [me EXCEPT !.read = IF raised THEN NoDoc ELSE users[me.user_id],
                  !.success = BoolStr(d.success),
                  !.staged = d.writes \o
                      << RequestWrite(h, GenerationRequest(me.user_id,
                                          me.size, me.credit_cost)) >>,
                  !.tx_open = TRUE, !.tx_valid = TRUE,
                  !.pc = "charge_commit"]

\* create_request_transaction up to the commit: the read of the user document,
\* deduct_credits, and the request record staged when it returned True.
\* When it returned False the transaction raises, is rolled back, and the
\* handler answers from its outer except clause.
RunChargeTransaction(h, raised) ==
    LET me == handler[h]
        d  == deduct_credits(users[me.user_id], raised, me.user_id,
                             me.credit_cost, h)
        ran == [me EXCEPT !.read = IF raised THEN NoDoc ELSE users[me.user_id],
                          !.success = BoolStr(d.success)]
    IN IF ~d.success
       THEN Returned(ran, InternalError)
       ELSE [ran EXCEPT !.staged = d.writes \o
                            << RequestWrite(h, GenerationRequest(me.user_id,
                                                me.size, me.credit_cost)) >>,
                        !.tx_open = TRUE, !.tx_valid = TRUE,
                        !.pc = "charge_commit"]

Charge(h) ==
    /\ handler[h].pc = "charge"
    /\ \E raised \in BOOLEAN :
         handler' = [handler EXCEPT ![h] = RunChargeTransaction(h, raised)]
    /\ UNCHANGED <<users, credit_transactions, generation_requests, creator,
                 client>>
    /\ UNCHANGED report_vars

\* A commit that applies its writes although a document it read has changed.
ChargeCommit_unvalidated(h) ==
    /\ handler[h].pc = "charge_commit"
    /\ \E raised \in BOOLEAN :
         LET me == handler[h]
             closed == [me EXCEPT !.tx_open = FALSE, !.tx_valid = FALSE]
             after == ApplyWrites(Store, me.staged)
         IN IF raised
            THEN /\ handler' = [handler EXCEPT ![h] =
                        Returned(me, InternalError)]
                 /\ UNCHANGED <<users, credit_transactions, generation_requests>>
            ELSE IF FALSE
            THEN /\ handler' = [handler EXCEPT ![h] =
                        [closed EXCEPT !.pc = "charge", !.read = NoDoc,
                                       !.success = "unset", !.staged = <<>>]]
                 /\ UNCHANGED <<users, credit_transactions, generation_requests>>
            ELSE /\ users' = after.users
                 /\ credit_transactions' = after.credit_transactions
                 /\ generation_requests' = after.generation_requests
                 /\ handler' = [Invalidate(handler, me.user_id, h) EXCEPT ![h] =
                        [closed EXCEPT !.pc = "generate", !.read = NoDoc,
                                       !.staged = <<>>]]
    /\ UNCHANGED <<creator, client>>
    /\ UNCHANGED report_vars

\* The commit of create_request_transaction: it raises, or it finds the read
\* invalidated and the transaction is run again, or all staged writes apply.
ChargeCommit(h) ==
    /\ handler[h].pc = "charge_commit"
    /\ \E raised \in BOOLEAN :
         LET me == handler[h]
             closed == [me EXCEPT !.tx_open = FALSE, !.tx_valid = FALSE]
             after == ApplyWrites(Store, me.staged)
         IN IF raised
            THEN /\ handler' = [handler EXCEPT ![h] =
                        Returned(me, InternalError)]
                 /\ UNCHANGED <<users, credit_transactions, generation_requests>>
            ELSE IF ~me.tx_valid
            THEN /\ handler' = [handler EXCEPT ![h] =
                        [closed EXCEPT !.pc = "charge", !.read = NoDoc,
                                       !.success = "unset", !.staged = <<>>]]
                 /\ UNCHANGED <<users, credit_transactions, generation_requests>>
            ELSE /\ users' = after.users
                 /\ credit_transactions' = after.credit_transactions
                 /\ generation_requests' = after.generation_requests
                 /\ handler' = [Invalidate(handler, me.user_id, h) EXCEPT ![h] =
                        [closed EXCEPT !.pc = "generate", !.read = NoDoc,
                                       !.staged = <<>>]]
    /\ UNCHANGED <<creator, client>>
    /\ UNCHANGED report_vars

\* generate_image called again after a failure.
GenerateImage_retry(h) ==
    /\ handler[h].pc = "generate"
    /\ \E outcome \in {"ok", "error", "retry"} :
         handler' = [handler EXCEPT ![h] =
            [@ EXCEPT !.gateway = IF outcome = "ok" THEN "ok" ELSE "error",
                      !.e = IF outcome = "ok" THEN "none" ELSE GatewayError,
                      !.pc = IF outcome = "ok" THEN "update_completed"
                             ELSE IF outcome = "error" THEN "update_failed"
                             ELSE "generate"]]
    /\ UNCHANGED <<users, credit_transactions, generation_requests, creator,
                 client>>
    /\ UNCHANGED report_vars

\* GenerationService.generate_image: returns an image URL or raises.
GenerateImage(h) ==
    /\ handler[h].pc = "generate"
    /\ \E outcome \in {"ok", "error"} :
         handler' = [handler EXCEPT ![h] =
            [@ EXCEPT !.gateway = outcome,
                      !.e = IF outcome = "ok" THEN "none" ELSE GatewayError,
                      !.pc = IF outcome = "ok" THEN "update_completed"
                             ELSE "update_failed"]]
    /\ UNCHANGED <<users, credit_transactions, generation_requests, creator,
                 client>>
    /\ UNCHANGED report_vars

\* The 200 response without the update of the request record.
UpdateCompleted_keeps_pending(h) ==
    /\ handler[h].pc = "update_completed"
    /\ \E raised \in BOOLEAN :
         IF raised
         THEN /\ handler' = [handler EXCEPT ![h].pc = "update_failed",
                                            ![h].e = StoreError]
              /\ UNCHANGED generation_requests
         ELSE /\ UNCHANGED generation_requests
              /\ handler' = [handler EXCEPT ![h] =
                    Returned(handler[h], Success(h, handler[h].credit_cost))]
    /\ UNCHANGED <<users, credit_transactions, creator, client>>
    /\ UNCHANGED report_vars

\* Lines 144-164: request_ref.update(status completed) and the 200 response.
\* The update is inside the try of the gateway call: when it raises, control
\* goes to the same except clause as a gateway failure.
UpdateCompleted(h) ==
    /\ handler[h].pc = "update_completed"
    /\ \E raised \in BOOLEAN :
         IF raised
         THEN /\ handler' = [handler EXCEPT ![h].pc = "update_failed",
                                            ![h].e = StoreError]
              /\ UNCHANGED generation_requests
         ELSE /\ generation_requests' =
                    [generation_requests EXCEPT ![h].status = "completed"]
              /\ handler' = [handler EXCEPT ![h] =
                    Returned(handler[h], Success(h, handler[h].credit_cost))]
    /\ UNCHANGED <<users, credit_transactions, creator, client>>
    /\ UNCHANGED report_vars

\* A failed-update whose store error is swallowed: the refund follows anyway.
UpdateFailed_swallowing(h) ==
    /\ handler[h].pc = "update_failed"
    /\ \E raised \in BOOLEAN :
         IF raised
         THEN /\ handler' = [handler EXCEPT ![h].pc = "refund"]
              /\ UNCHANGED generation_requests
         ELSE /\ generation_requests' =
                    [generation_requests EXCEPT ![h].status = "failed"]
              /\ handler' = [handler EXCEPT ![h].pc = "refund"]
    /\ UNCHANGED <<users, credit_transactions, creator, client>>
    /\ UNCHANGED report_vars

\* Lines 166-176: request_ref.update(status failed).  When it raises, the
\* outer except clause answers and the refund is never reached.
UpdateFailed(h) ==
    /\ handler[h].pc = "update_failed"
    /\ \E raised \in BOOLEAN :
         IF raised
         THEN /\ handler' = [handler EXCEPT ![h] =
                    Returned(handler[h], InternalError)]
              /\ UNCHANGED generation_requests
         ELSE /\ generation_requests' =
                    [generation_requests EXCEPT ![h].status = "failed"]
              /\ handler' = [handler EXCEPT ![h].pc = "refund"]
    /\ UNCHANGED <<users, credit_transactions, creator, client>>
    /\ UNCHANGED report_vars

\* Lines 178-193 with refund_credits: the transaction's read and staged writes.
\* refund_credits swallows a store error and returns False; the handler does
\* not look at the value and answers with creditsRefunded either way.
Refund(h) ==
    /\ handler[h].pc = "refund"
    /\ \E raised \in BOOLEAN :
         LET me == handler[h]
         IN handler' = [handler EXCEPT ![h] =
              IF raised
              THEN Returned([me EXCEPT !.refunded = "False"],
                            GenerationFailed(me.e, me.credit_cost))
              ELSE [me EXCEPT !.refund_read = users[me.user_id],
                              !.refund_staged =
                                 refund_transaction(users[me.user_id], me.user_id,
                                                    me.credit_cost, h),
                              !.tx_open = TRUE, !.tx_valid = TRUE,
                              !.pc = "refund_commit"]]
    /\ UNCHANGED <<users, credit_transactions, generation_requests, creator,
                 client>>
    /\ UNCHANGED report_vars

RefundCommit(h) ==
    /\ handler[h].pc = "refund_commit"
    /\ \E raised \in BOOLEAN :
         LET me == handler[h]
             closed == [me EXCEPT !.tx_open = FALSE, !.tx_valid = FALSE]
             after == ApplyWrites(Store, me.refund_staged)
         IN IF raised
            THEN /\ handler' = [handler EXCEPT ![h] =
                        Returned([me EXCEPT !.refunded = "False"],
                                 GenerationFailed(me.e, me.credit_cost))]
                 /\ UNCHANGED <<users, credit_transactions, generation_requests>>
            ELSE IF ~me.tx_valid
            THEN /\ handler' = [handler EXCEPT ![h] =
                        [closed EXCEPT !.pc = "refund", !.refund_read = NoDoc,
                                       !.refund_staged = <<>>]]
                 /\ UNCHANGED <<users, credit_transactions, generation_requests>>
            ELSE /\ users' = after.users
                 /\ credit_transactions' = after.credit_transactions
                 /\ generation_requests' = after.generation_requests
                 /\ handler' = [Invalidate(handler, me.user_id, h) EXCEPT ![h] =
                        Returned([me EXCEPT !.refunded = "True"],
                                 GenerationFailed(me.e, me.credit_cost))]
    /\ UNCHANGED <<creator, client>>
    /\ UNCHANGED report_vars

(* ---------------------- create_user_with_credits ----------------------- *)

\* Lines 224-232: user_data, with the email field when an email is passed.
user_data(user_id, initial_credits, email) ==
    IF email.none THEN UserDoc(initial_credits)
    ELSE IF email.value = "" THEN UserDoc(initial_credits)
    ELSE UserDocWithEmail(initial_credits, email.value)

\* create_user_with_credits that returns False for an account that exists.
CreateUserSet_once ==
    /\ creator.pc = "idle"
    /\ creator.calls < MaxCreates
    /\ \E u \in Users, initial_credits \in InitialCredits,
          email \in creator.emails, raised \in BOOLEAN :
         LET me == [creator EXCEPT !.user_id = u,
                                   !.initial_credits = initial_credits,
                                   !.email = email,
                                   !.result = "unset", !.raised = raised,
                                   !.calls = @ + 1]
         IN IF raised \/ users[u].exists
            THEN /\ creator' = CreatorReturned(me, "False")
                 /\ UNCHANGED <<users, handler, client>>
            ELSE /\ users' = [users EXCEPT ![u] =
                                  user_data(u, initial_credits, email)]
                 /\ handler' = Invalidate(handler, u, 0)
                 /\ client' = InvalidateClient(client, u)
                 /\ creator' = [me EXCEPT !.pc = "record"]
    /\ UNCHANGED <<credit_transactions, generation_requests>>
    /\ UNCHANGED report_vars

\* set(user_data, merge=True): the fields not written again are kept.
CreateUserSet_merging ==
    /\ creator.pc = "idle"
    /\ creator.calls < MaxCreates
    /\ \E u \in Users, initial_credits \in InitialCredits,
          email \in creator.emails, raised \in BOOLEAN :
         LET me == [creator EXCEPT !.user_id = u,
                                   !.initial_credits = initial_credits,
                                   !.email = email,
                                   !.result = "unset", !.raised = raised,
                                   !.calls = @ + 1]
         IN IF raised
            THEN /\ creator' = CreatorReturned(me, "False")
                 /\ UNCHANGED <<users, handler, client>>
            ELSE /\ users' = [users EXCEPT ![u] =
                                  user_data(u, initial_credits, email)
                                  @@ users[u]]
                 /\ handler' = Invalidate(handler, u, 0)
                 /\ client' = InvalidateClient(client, u)
                 /\ creator' = [me EXCEPT !.pc = "record"]
    /\ UNCHANGED <<credit_transactions, generation_requests>>
    /\ UNCHANGED report_vars

\* Lines 223-234: users/<id>.set(user_data), a plain write outside any
\* transaction that replaces the document.
CreateUserSet ==
    /\ creator.pc = "idle"
    /\ creator.calls < MaxCreates
    /\ \E u \in Users, initial_credits \in InitialCredits,
          email \in creator.emails, raised \in BOOLEAN :
         LET me == [creator EXCEPT !.user_id = u,
                                   !.initial_credits = initial_credits,
                                   !.email = email,
                                   !.result = "unset", !.raised = raised,
                                   !.calls = @ + 1]
         IN IF raised
            THEN /\ creator' = CreatorReturned(me, "False")
                 /\ UNCHANGED <<users, handler, client>>
            ELSE /\ users' = [users EXCEPT ![u] =
                                  user_data(u, initial_credits, email)]
                 /\ handler' = Invalidate(handler, u, 0)
                 /\ client' = InvalidateClient(client, u)
                 /\ creator' = [me EXCEPT !.pc = "record"]
    /\ UNCHANGED <<credit_transactions, generation_requests>>
    /\ UNCHANGED report_vars

\* Lines 236-255: the credit record of the initial grant, a second plain write.
CreateUserRecord ==
    /\ creator.pc = "record"
    /\ \E raised \in BOOLEAN :
         IF raised
         THEN /\ creator' = CreatorReturned([creator EXCEPT !.raised = TRUE],
                                             "False")
              /\ UNCHANGED credit_transactions
         ELSE /\ credit_transactions' = Append(credit_transactions,
                     Stamped(CreditTransaction(creator.user_id, "credit",
                                 creator.initial_credits, NoRequestId),
                             Now(credit_transactions)))
              /\ creator' = CreatorReturned(creator, "True")
    /\ UNCHANGED <<users, generation_requests, handler, client>>
    /\ UNCHANGED report_vars

(* ------------------- direct calls of the Credit Ledger ----------------- *)

CallRefundCredits ==
    /\ client.pc = "idle"
    /\ client.calls < MaxCalls
    /\ \E u \in Users, amount \in Amounts, request_id \in RequestIds :
         client' = Called(client, "refund_credits", u, amount, request_id, 0)
    /\ UNCHANGED <<users, credit_transactions, generation_requests, handler,
                   creator>>
    /\ UNCHANGED report_vars

\* refund_credits that, like deduct_credits, returns False for an account
\* that does not exist.
RefundCredits_requires_account ==
    /\ client.pc = "refund_credits"
    /\ \E raised \in BOOLEAN :
         client' =
            IF raised
            THEN ClientReturned([client EXCEPT !.raised = TRUE],
                                Result("False"))
            ELSE IF ~users[client.user_id].exists
            THEN ClientReturned(client, Result("False"))
            ELSE [client EXCEPT !.read = users[client.user_id],
                                !.staged =
                                   refund_transaction(users[client.user_id],
                                       client.user_id, client.amount,
                                       client.request_id),
                                !.tx_open = TRUE, !.tx_valid = TRUE,
                                !.pc = "refund_commit"]
    /\ UNCHANGED <<users, credit_transactions, generation_requests, handler,
                   creator>>
    /\ UNCHANGED report_vars

\* Lines 118-157: refund_transaction run on the snapshot it reads.
RefundCredits ==
    /\ client.pc = "refund_credits"
    /\ \E raised \in BOOLEAN :
         client' =
            IF raised
            THEN ClientReturned([client EXCEPT !.raised = TRUE],
                                Result("False"))
            ELSE [client EXCEPT !.read = users[client.user_id],
                                !.staged =
                                   refund_transaction(users[client.user_id],
                                       client.user_id, client.amount,
                                       client.request_id),
                                !.tx_open = TRUE, !.tx_valid = TRUE,
                                !.pc = "refund_commit"]
    /\ UNCHANGED <<users, credit_transactions, generation_requests, handler,
                   creator>>
    /\ UNCHANGED report_vars

\* Lines 159-168: the commit of refund_transaction, and the value returned.
RefundCreditsCommit ==
    /\ client.pc = "refund_commit"
    /\ \E raised \in BOOLEAN :
         LET after == ApplyWrites(Store, client.staged)
         IN IF raised
            THEN /\ client' = ClientReturned([client EXCEPT !.raised = TRUE],
                                             Result("False"))
                 /\ UNCHANGED <<users, credit_transactions,
                                generation_requests, handler>>
            ELSE IF ~client.tx_valid
            THEN /\ client' = [client EXCEPT !.pc = "refund_credits",
                                             !.tx_open = FALSE,
                                             !.read = NoDoc, !.staged = <<>>]
                 /\ UNCHANGED <<users, credit_transactions,
                                generation_requests, handler>>
            ELSE /\ users' = after.users
                 /\ credit_transactions' = after.credit_transactions
                 /\ generation_requests' = after.generation_requests
                 /\ handler' = Invalidate(handler, client.user_id, 0)
                 /\ client' = ClientReturned(client, Result("True"))
    /\ UNCHANGED creator
    /\ UNCHANGED report_vars

CallGetUserCredits ==
    /\ client.pc = "idle"
    /\ client.calls < MaxCalls
    /\ \E u \in Users :
         client' = Called(client, "get_user_credits", u, 0, 0, 0)
    /\ UNCHANGED <<users, credit_transactions, generation_requests, handler,
                   creator>>
    /\ UNCHANGED report_vars

\* get_user_credits that creates the account it does not find.
GetUserCredits_creating ==
    /\ client.pc = "get_user_credits"
    /\ \E raised \in BOOLEAN :
         /\ client' = ClientReturned([client EXCEPT !.raised = raised],
                          Result(get_user_credits(users[client.user_id],
                                                  raised)))
         /\ users' = IF raised \/ users[client.user_id].exists THEN users
                     ELSE [users EXCEPT ![client.user_id] = UserDoc(0)]
    /\ UNCHANGED <<credit_transactions, generation_requests, handler,
                   creator>>
    /\ UNCHANGED report_vars

\* Lines 22-39.
GetUserCredits ==
    /\ client.pc = "get_user_credits"
    /\ \E raised \in BOOLEAN :
         client' = ClientReturned([client EXCEPT !.raised = raised],
                       Result(get_user_credits(users[client.user_id], raised)))
    /\ UNCHANGED <<users, credit_transactions, generation_requests, handler,
                   creator>>
    /\ UNCHANGED report_vars

CallGetTransactionHistory ==
    /\ client.pc = "idle"
    /\ client.calls < MaxCalls
    /\ \E u \in Users, limit \in Limits :
         client' = Called(client, "get_transaction_history", u, 0, 0, limit)
    /\ UNCHANGED <<users, credit_transactions, generation_requests, handler,
                   creator>>
    /\ UNCHANGED report_vars

\* Lines 170-204.
GetTransactionHistory ==
    /\ client.pc = "get_transaction_history"
    /\ \E raised \in BOOLEAN :
         client' = ClientReturned([client EXCEPT !.raised = raised],
                       Result(get_transaction_history(credit_transactions,
                                  client.user_id, client.limit, raised)))
    /\ UNCHANGED <<users, credit_transactions, generation_requests, handler,
                   creator>>
    /\ UNCHANGED report_vars

CallDeductCredits ==
    /\ client.pc = "idle"
    /\ client.calls < MaxCalls
    /\ \E u \in Users, amount \in Amounts, request_id \in RequestIds :
         client' = Called(client, "deduct_credits", u, amount, request_id, 0)
    /\ UNCHANGED <<users, credit_transactions, generation_requests, handler,
                   creator>>
    /\ UNCHANGED report_vars

\* Lines 41-100, in a transaction of the caller, who commits it when
\* deduct_credits returned True and drops it otherwise.
DeductCredits ==
    /\ client.pc = "deduct_credits"
    /\ \E raised \in BOOLEAN :
         LET d == deduct_credits(users[client.user_id], raised,
                                 client.user_id, client.amount,
                                 client.request_id)
             ran == [client EXCEPT !.raised = raised,
                                   !.read = IF raised THEN NoDoc
                                            ELSE users[client.user_id]]
         IN client' =
               IF ~d.success THEN ClientReturned(ran, Result("False"))
               ELSE [ran EXCEPT !.staged = d.writes, !.tx_open = TRUE,
                                !.tx_valid = TRUE, !.pc = "deduct_commit"]
    /\ UNCHANGED <<users, credit_transactions, generation_requests, handler,
                   creator>>
    /\ UNCHANGED report_vars

\* The caller's commit: deduct_credits has returned True by then.
DeductCreditsCommit ==
    /\ client.pc = "deduct_commit"
    /\ \E raised \in BOOLEAN :
         LET after == ApplyWrites(Store, client.staged)
         IN IF raised
            THEN /\ client' = ClientReturned(client, Result("True"))
                 /\ UNCHANGED <<users, credit_transactions,
                                generation_requests, handler>>
            ELSE IF ~client.tx_valid
            THEN /\ client' = [client EXCEPT !.pc = "deduct_credits",
                                             !.tx_open = FALSE,
                                             !.read = NoDoc, !.staged = <<>>]
                 /\ UNCHANGED <<users, credit_transactions,
                                generation_requests, handler>>
            ELSE /\ users' = after.users
                 /\ credit_transactions' = after.credit_transactions
                 /\ generation_requests' = after.generation_requests
                 /\ handler' = Invalidate(handler, client.user_id, 0)
                 /\ client' = ClientReturned(client, Result("True"))
    /\ UNCHANGED creator
    /\ UNCHANGED report_vars

(* --------------------------- specification ----------------------------- *)

Next ==
    \/ \E h \in Handlers : RejectRequest(h)
    \/ \E h \in Handlers : CheckCredits(h)
    \/ \E h \in Handlers : Charge(h)
    \/ \E h \in Handlers : ChargeCommit(h)
    \/ \E h \in Handlers : GenerateImage(h)
    \/ \E h \in Handlers : UpdateCompleted(h)
    \/ \E h \in Handlers : UpdateFailed(h)
    \/ \E h \in Handlers : Refund(h)
    \/ \E h \in Handlers : RefundCommit(h)
    \/ CreateUserSet
    \/ CreateUserRecord

Spec == Init /\ [][Next]_vars

\* The Credit Ledger called directly, next to create_user_with_credits.
LedgerNext ==
    \/ CallRefundCredits
    \/ RefundCredits
    \/ RefundCreditsCommit
    \/ CallDeductCredits
    \/ DeductCredits
    \/ DeductCreditsCommit
    \/ CallGetUserCredits
    \/ GetUserCredits
    \/ CallGetTransactionHistory
    \/ GetTransactionHistory
    \/ CreateUserSet
    \/ CreateUserRecord

LedgerSpec == Init /\ [][LedgerNext]_vars

\* The same with a caller of create_user_with_credits that passes an email,
\* an empty email or none.
CreateInit ==
    /\ NoReports
    /\ users = [u \in Users |-> NoDoc]
    /\ credit_transactions = <<>>
    /\ generation_requests = [r \in Handlers |-> NoDoc]
    /\ handler = [h \in Handlers |-> IdleHandler]
    /\ creator = [IdleCreator EXCEPT !.emails = {None, Some(""), Email}]
    /\ client = IdleClient

CreateSpec == CreateInit /\ [][LedgerNext]_vars

(* ------------------------- ledger readings ----------------------------- *)

\* The positions of the records of one type written for one request.
RecordsOf(type, request_id) ==
    {i \in DOMAIN credit_transactions :
        /\ credit_transactions[i].type = type
        /\ credit_transactions[i].generationRequestId = request_id}

RECURSIVE SumCredits(_, _, _)
\* Sum of credits over the records of one type and user among the first n.
SumCredits(type, user_id, n) ==
    IF n = 0 THEN 0
    ELSE SumCredits(type, user_id, n - 1) +
         (IF /\ credit_transactions[n].type = type
             /\ credit_transactions[n].userId = user_id
          THEN credit_transactions[n].credits ELSE 0)

Total(type, user_id) == SumCredits(type, user_id, Len(credit_transactions))

Balance(user_id) == IF users[user_id].exists THEN users[user_id].credits ELSE 0

(* ------------------- get_transaction_history alone ------------------- *)

\* get_transaction_history over the records that up to MaxDocs refunds of 1
\* credit have left, in any storage order.
RefundDocs ==
    {Stamped(CreditTransaction(u, "refund", 1, r), t) :
        u \in Users, r \in RequestIds, t \in 1 .. MaxDocs}

StoredHistories ==
    UNION {{docs \in [1 .. n -> RefundDocs] :
               {docs[i].timestamp : i \in 1 .. n} = 1 .. n} : n \in 0 .. MaxDocs}

HistoryInit ==
    /\ NoReports
    /\ credit_transactions \in StoredHistories
    /\ users = [u \in Users |->
                  IF \E i \in DOMAIN credit_transactions :
                         credit_transactions[i].userId = u
                  THEN UserDoc(Total("refund", u)) ELSE NoDoc]
    /\ generation_requests = [r \in Handlers |-> NoDoc]
    /\ handler = [h \in Handlers |-> IdleHandler]
    /\ creator = IdleCreator
    /\ client = IdleClient

HistoryNext ==
    \/ CallGetTransactionHistory
    \/ GetTransactionHistory

HistorySpec == HistoryInit /\ [][HistoryNext]_vars

(* --------------------------- the report engine ------------------------- *)

\* datetime.replace(hour=0, minute=0, second=0, microsecond=0): the start of
\* the day the instant lies in.
TruncateToDay(t) == t - (t % TicksPerDay)

\* datetime.isoformat() of a UTC instant: two texts are equal exactly when
\* the instants are.
isoformat(t) == [iso |-> t]

\* dict.get(field, default).
Get(data, field, default) ==
    IF field \in DOMAIN data THEN data[field] ELSE default

\* defaultdict(int): d[key] += n.
Add(d, key, n) ==
    IF key \in DOMAIN d THEN [d EXCEPT ![key] = @ + n] ELSE d @@ (key :> n)

\* .where(field, ">=", start_date).where(field, "<", end_date).stream()
Where(docs, field, start_date, end_date) ==
    SelectSeq(docs, LAMBDA doc : /\ field \in DOMAIN doc
                                 /\ doc[field] >= start_date
                                 /\ doc[field] < end_date)

\* The counters before the first request.
NoCounts ==
    [total_requests |-> 0, successful_requests |-> 0, failed_requests |-> 0,
     requests_by_model |-> <<>>, requests_by_size |-> <<>>,
     requests_by_style |-> <<>>, requests_by_color |-> <<>>,
     credits_by_size |-> <<>>]

\* Counting only completed and failed requests in the total.
CountRequest_settled(c, request_data) ==
    LET status == Get(request_data, "status", "pending")
        size == Get(request_data, "size", "Unknown")
    IN [total_requests |-> c.total_requests
                             + IF status = "pending" THEN 0 ELSE 1,
        successful_requests |-> c.successful_requests
                                  + IF status = "completed" THEN 1 ELSE 0,
        failed_requests |-> c.failed_requests
                              + IF status = "failed" THEN 1 ELSE 0,
        requests_by_model |->
            Add(c.requests_by_model, Get(request_data, "model", "Unknown"), 1),
        requests_by_size |-> Add(c.requests_by_size, size, 1),
        requests_by_style |->
            Add(c.requests_by_style, Get(request_data, "style", "Unknown"), 1),
        requests_by_color |->
            Add(c.requests_by_color, Get(request_data, "color", "Unknown"), 1),
        credits_by_size |->
            IF status = "completed"
            THEN Add(c.credits_by_size, size,
                     Get(request_data, "creditsCharged", 0))
            ELSE c.credits_by_size]

\* Counting by attribute only the requests that carry the attribute.
CountRequest_labelled_only(c, request_data) ==
    LET status == Get(request_data, "status", "pending")
        Count(d, field) ==
            IF field \in DOMAIN request_data
            THEN Add(d, request_data[field], 1) ELSE d
    IN [total_requests |-> c.total_requests + 1,
        successful_requests |-> c.successful_requests
                                  + IF status = "completed" THEN 1 ELSE 0,
        failed_requests |-> c.failed_requests
                              + IF status = "failed" THEN 1 ELSE 0,
        requests_by_model |-> Count(c.requests_by_model, "model"),
        requests_by_size |-> Count(c.requests_by_size, "size"),
        requests_by_style |-> Count(c.requests_by_style, "style"),
        requests_by_color |-> Count(c.requests_by_color, "color"),
        credits_by_size |->
            IF status = "completed" /\ "size" \in DOMAIN request_data
            THEN Add(c.credits_by_size, request_data.size,
                     Get(request_data, "creditsCharged", 0))
            ELSE c.credits_by_size]

\* Adding the credits of every request to creditsBySize.
CountRequest_all_credits(c, request_data) ==
    LET status == Get(request_data, "status", "pending")
        size == Get(request_data, "size", "Unknown")
    IN [total_requests |-> c.total_requests + 1,
        successful_requests |-> c.successful_requests
                                  + IF status = "completed" THEN 1 ELSE 0,
        failed_requests |-> c.failed_requests
                              + IF status = "failed" THEN 1 ELSE 0,
        requests_by_model |->
            Add(c.requests_by_model, Get(request_data, "model", "Unknown"), 1),
        requests_by_size |-> Add(c.requests_by_size, size, 1),
        requests_by_style |->
            Add(c.requests_by_style, Get(request_data, "style", "Unknown"), 1),
        requests_by_color |->
            Add(c.requests_by_color, Get(request_data, "color", "Unknown"), 1),
        credits_by_size |->
            Add(c.credits_by_size, size,
                Get(request_data, "creditsCharged", 0))]

\* One turn of the loop over the requests of the window.
CountRequest(c, request_data) ==
    LET status == Get(request_data, "status", "pending")
        size == Get(request_data, "size", "Unknown")
    IN [total_requests |-> c.total_requests + 1,
        successful_requests |-> c.successful_requests
                                  + IF status = "completed" THEN 1 ELSE 0,
        failed_requests |-> c.failed_requests
                              + IF status = "failed" THEN 1 ELSE 0,
        requests_by_model |->
            Add(c.requests_by_model, Get(request_data, "model", "Unknown"), 1),
        requests_by_size |-> Add(c.requests_by_size, size, 1),
        requests_by_style |->
            Add(c.requests_by_style, Get(request_data, "style", "Unknown"), 1),
        requests_by_color |->
            Add(c.requests_by_color, Get(request_data, "color", "Unknown"), 1),
        credits_by_size |->
            IF status = "completed"
            THEN Add(c.credits_by_size, size,
                     Get(request_data, "creditsCharged", 0))
            ELSE c.credits_by_size]

RECURSIVE CountRequests(_, _)
\* The counters after the first n requests of the query's result.
CountRequests(requests, n) ==
    IF n = 0 THEN NoCounts
    ELSE CountRequest(CountRequests(requests, n - 1), requests[n])

\* The sums before the first transaction.
NoSums == [total_credits_consumed |-> 0, total_credits_refunded |-> 0]

\* Counting credit records as refunds.
SumTransaction_credit_as_refund(s, trans_data) ==
    LET trans_type == Get(trans_data, "type", "none")
        credits == Get(trans_data, "credits", 0)
    IN IF trans_type = "deduction"
       THEN [s EXCEPT !.total_credits_consumed = @ + credits]
       ELSE [s EXCEPT !.total_credits_refunded = @ + credits]

\* One turn of the loop over the transactions of the window.
SumTransaction(s, trans_data) ==
    LET trans_type == Get(trans_data, "type", "none")
        credits == Get(trans_data, "credits", 0)
    IN IF trans_type = "deduction"
       THEN [s EXCEPT !.total_credits_consumed = @ + credits]
       ELSE IF trans_type = "refund"
       THEN [s EXCEPT !.total_credits_refunded = @ + credits]
       ELSE s

RECURSIVE SumTransactions(_, _)
\* The sums after the first n transactions of the query's result.
SumTransactions(transactions, n) ==
    IF n = 0 THEN NoSums
    ELSE SumTransaction(SumTransactions(transactions, n - 1), transactions[n])

\* part / whole * 100 as the fraction num / den, for whole > 0.  The float
\* the code computes compares with 10, 20, 50, 80 and 100 as the fraction
\* does for every count below 60.
Percent(part, whole) == [num |-> part * 100, den |-> whole]
Exceeds(percent, threshold) == percent.num > threshold * percent.den
Abs(n) == IF n < 0 THEN 0 - n ELSE n

\* round(successful / total * 100, 2) in hundredths; no total below 32 puts
\* the rate halfway between two hundredths.
RoundedPercent(part, whole) == (2 * 10000 * part + whole) \div (2 * whole)

\* Flagging a change of exactly 50 percent too.
VolumeSpike_from_50(total_requests, previous_report) ==
    LET prev_total == Get(previous_report, "totalRequests", 0)
    IN IF prev_total > 0
       THEN LET change_percent ==
                    Percent(Abs(total_requests - prev_total), prev_total)
            IN IF change_percent.num >= 50 * change_percent.den
               THEN <<[type |-> "request_volume_spike",
                       severity |-> IF Exceeds(change_percent, 100)
                                    THEN "high" ELSE "medium",
                       currentValue |-> total_requests,
                       previousValue |-> prev_total]>>
               ELSE <<>>
       ELSE <<>>

\* Severity high from a change of 100 percent on.
VolumeSpike_high_from_100(total_requests, previous_report) ==
    LET prev_total == Get(previous_report, "totalRequests", 0)
    IN IF prev_total > 0
       THEN LET change_percent ==
                    Percent(Abs(total_requests - prev_total), prev_total)
            IN IF Exceeds(change_percent, 50)
               THEN <<[type |-> "request_volume_spike",
                       severity |-> IF change_percent.num
                                          >= 100 * change_percent.den
                                    THEN "high" ELSE "medium",
                       currentValue |-> total_requests,
                       previousValue |-> prev_total]>>
               ELSE <<>>
       ELSE <<>>

\* The request volume check against the previous report (lines 185-195);
\* change_percent is kept as its absolute value.
VolumeSpike(total_requests, previous_report) ==
    LET prev_total == Get(previous_report, "totalRequests", 0)
    IN IF prev_total > 0
       THEN LET change_percent ==
                    Percent(Abs(total_requests - prev_total), prev_total)
            IN IF Exceeds(change_percent, 50)
               THEN <<[type |-> "request_volume_spike",
                       severity |-> IF Exceeds(change_percent, 100)
                                    THEN "high" ELSE "medium",
                       currentValue |-> total_requests,
                       previousValue |-> prev_total]>>
               ELSE <<>>
       ELSE <<>>

\* The failure rate check (lines 198-206, and 222-230 without a previous
\* report).
HighFailureRate(total_requests, failed_requests) ==
    IF total_requests > 0
    THEN LET failure_rate == Percent(failed_requests, total_requests)
         IN IF Exceeds(failure_rate, 10)
            THEN <<[type |-> "high_failure_rate",
                    severity |-> IF Exceeds(failure_rate, 20)
                                 THEN "high" ELSE "medium",
                    failureRate |-> failure_rate]>>
            ELSE <<>>
    ELSE <<>>

RECURSIVE ModelImbalance_from_80(_, _, _)
\* Flagging a share of exactly 80 percent too.
ModelImbalance_from_80(requests_by_model, models, total_requests) ==
    IF models = {} THEN <<>>
    ELSE LET model == CHOOSE m \in models : TRUE
             model_percent == Percent(requests_by_model[model], total_requests)
             rest == ModelImbalance_from_80(requests_by_model,
                                            models \ {model}, total_requests)
         IN IF total_requests > 0
                /\ model_percent.num >= 80 * model_percent.den
            THEN <<[type |-> "model_imbalance", severity |-> "low",
                    model |-> model, percentage |-> model_percent]>> \o rest
            ELSE rest

RECURSIVE ModelImbalance(_, _, _)
\* The loop over requests_by_model.items(), for the models still to visit.
\* The dict is visited in insertion order; of two models at most one holds
\* more than 80 percent, so the order does not show in the result.
ModelImbalance(requests_by_model, models, total_requests) ==
    IF models = {} THEN <<>>
    ELSE LET model == CHOOSE m \in models : TRUE
             model_percent == Percent(requests_by_model[model], total_requests)
             rest == ModelImbalance(requests_by_model, models \ {model},
                                    total_requests)
         IN IF total_requests > 0 /\ Exceeds(model_percent, 80)
            THEN <<[type |-> "model_imbalance", severity |-> "low",
                    model |-> model, percentage |-> model_percent]>> \o rest
            ELSE rest

\* The failure rate checked only against a previous report.
detect_anomalies_no_fallback(total_requests, failed_requests, requests_by_model, previous_report) ==
    IF previous_report # None
    THEN VolumeSpike(total_requests, previous_report)
         \o HighFailureRate(total_requests, failed_requests)
         \o ModelImbalance(requests_by_model, DOMAIN requests_by_model,
                           total_requests)
    ELSE <<>>

\* _detect_anomalies after its lookup returned previous_report.
detect_anomalies(total_requests, failed_requests, requests_by_model, previous_report) ==
    IF previous_report # None
    THEN VolumeSpike(total_requests, previous_report)
         \o HighFailureRate(total_requests, failed_requests)
         \o ModelImbalance(requests_by_model, DOMAIN requests_by_model,
                           total_requests)
    ELSE HighFailureRate(total_requests, failed_requests)

\* What .where("weekStartDate", "==", previous_week_start.isoformat())
\* .limit(1) can leave in previous_report: one of the matching documents, in
\* no stated order, or None.
PreviousReports(reports, start_date) ==
    LET matching == {i \in DOMAIN reports :
                        reports[i].weekStartDate
                            = isoformat(start_date - Week)}
    IN IF matching = {} THEN {None} ELSE {reports[i] : i \in matching}

\* report_data, from the locals of generate_weekly_report.
report_data(me, created_at) ==
    [weekStartDate |-> isoformat(me.start_date),
     weekEndDate |-> isoformat(me.end_date),
     totalRequests |-> me.total_requests,
     successfulRequests |-> me.successful_requests,
     failedRequests |-> me.failed_requests,
     successRate |-> IF me.total_requests > 0
                     THEN RoundedPercent(me.successful_requests,
                                         me.total_requests)
                     ELSE 0,
     totalCreditsConsumed |-> me.total_credits_consumed,
     totalCreditsRefunded |-> me.total_credits_refunded,
     netCreditsUsed |-> me.total_credits_consumed - me.total_credits_refunded,
     requestsByModel |-> me.requests_by_model,
     requestsBySize |-> me.requests_by_size,
     requestsByStyle |-> me.requests_by_style,
     requestsByColor |-> me.requests_by_color,
     creditsBySize |-> me.credits_by_size,
     anomalies |-> me.anomalies,
     createdAt |-> created_at]

\* generate_weekly_report caught the exception e of a store call and raised
\* it, and scheduleWeeklyReport raised it again.
JobRaised(me, e) == [me EXCEPT !.pc = "done", !.raised = TRUE, !.e = e]

\* The schedule "0 0 * * 1": an invocation starts on a Monday.
IsMonday(t) == t % Week < TicksPerDay

\* The end of the window without the truncation to the day.
ScanRequests_untruncated(j) ==
    /\ job[j].pc = "idle"
    /\ Arrived(job, j)
    /\ IsMonday(now)
    /\ \E raised \in BOOLEAN :
         LET end_date == now
             start_date == end_date - Week
             requests == Where(generation_requests, "createdAt", start_date,
                               end_date)
             me == [job[j] EXCEPT !.start_date = start_date,
                                  !.end_date = end_date]
         IN job' = [job EXCEPT ![j] =
                IF raised THEN JobRaised(me, "requests")
                ELSE [(CountRequests(requests, Len(requests)) @@ me)
                          EXCEPT !.pc = "transactions"]]
    /\ UNCHANGED <<users, credit_transactions, generation_requests, handler,
                   creator, client, weekly_reports, now>>

\* scheduleWeeklyReport fires and generate_weekly_report computes its window
\* and scans generation_requests (lines 30-81); the query may raise.
ScanRequests(j) ==
    /\ job[j].pc = "idle"
    /\ Arrived(job, j)
    /\ IsMonday(now)
    /\ \E raised \in BOOLEAN :
         LET end_date == TruncateToDay(now)
             start_date == end_date - Week
             requests == Where(generation_requests, "createdAt", start_date,
                               end_date)
             me == [job[j] EXCEPT !.start_date = start_date,
                                  !.end_date = end_date]
         IN job' = [job EXCEPT ![j] =
                IF raised THEN JobRaised(me, "requests")
                ELSE [(CountRequests(requests, Len(requests)) @@ me)
                          EXCEPT !.pc = "transactions"]]
    /\ UNCHANGED <<users, credit_transactions, generation_requests, handler,
                   creator, client, weekly_reports, now>>

\* A failed scan of the transactions swallowed: the report is written with
\* the sums at zero.
ScanTransactions_swallowing(j) ==
    /\ job[j].pc = "transactions"
    /\ \E raised \in BOOLEAN :
         LET me == job[j]
             transactions == Where(credit_transactions, "timestamp",
                                   me.start_date, me.end_date)
         IN job' = [job EXCEPT ![j] =
                IF raised
                THEN [me EXCEPT !.e = "transactions", !.pc = "anomalies"]
                ELSE [(SumTransactions(transactions, Len(transactions)) @@ me)
                          EXCEPT !.pc = "anomalies"]]
    /\ UNCHANGED <<users, credit_transactions, generation_requests, handler,
                   creator, client, weekly_reports, now>>

\* The scan of credit_transactions (lines 83-101); the query may raise.
ScanTransactions(j) ==
    /\ job[j].pc = "transactions"
    /\ \E raised \in BOOLEAN :
         LET me == job[j]
             transactions == Where(credit_transactions, "timestamp",
                                   me.start_date, me.end_date)
         IN job' = [job EXCEPT ![j] =
                IF raised THEN JobRaised(me, "transactions")
                ELSE [(SumTransactions(transactions, Len(transactions)) @@ me)
                          EXCEPT !.pc = "anomalies"]]
    /\ UNCHANGED <<users, credit_transactions, generation_requests, handler,
                   creator, client, weekly_reports, now>>

\* A failed lookup of the previous report raised to the caller.
DetectAnomalies_raising(j) ==
    /\ job[j].pc = "anomalies"
    /\ \E raised \in BOOLEAN :
       \E previous_report \in PreviousReports(weekly_reports,
                                              job[j].start_date) :
         LET me == job[j]
         IN job' = [job EXCEPT ![j] =
                IF raised
                THEN JobRaised([me EXCEPT !.anomaly_error = TRUE], "lookup")
                ELSE [me EXCEPT !.previous_report = previous_report,
                                !.anomalies =
                                    detect_anomalies(me.total_requests,
                                                     me.failed_requests,
                                                     me.requests_by_model,
                                                     previous_report),
                                !.pc = "save"]]
    /\ UNCHANGED <<users, credit_transactions, generation_requests, handler,
                   creator, client, weekly_reports, now>>

\* _detect_anomalies (lines 148-235): the lookup of the previous report may
\* raise, which is logged and leaves the anomalies empty.
DetectAnomalies(j) ==
    /\ job[j].pc = "anomalies"
    /\ \E raised \in BOOLEAN :
       \E previous_report \in PreviousReports(weekly_reports,
                                              job[j].start_date) :
         LET me == job[j]
         IN job' = [job EXCEPT ![j] =
                IF raised
                THEN [me EXCEPT !.anomaly_error = TRUE, !.pc = "save"]
                ELSE [me EXCEPT !.previous_report = previous_report,
                                !.anomalies =
                                    detect_anomalies(me.total_requests,
                                                     me.failed_requests,
                                                     me.requests_by_model,
                                                     previous_report),
                                !.pc = "save"]]
    /\ UNCHANGED <<users, credit_transactions, generation_requests, handler,
                   creator, client, weekly_reports, now>>

\* Writing the report over the latest report of the same week.
SaveReport_superseding(j) ==
    /\ job[j].pc = "save"
    /\ \E raised \in BOOLEAN :
         LET me == job[j]
             same == {i \in DOMAIN weekly_reports :
                         weekly_reports[i].weekStartDate
                             = isoformat(me.start_date)}
         IN IF raised
            THEN /\ job' = [job EXCEPT ![j] = JobRaised(me, "report")]
                 /\ UNCHANGED weekly_reports
            ELSE IF same # {}
            THEN LET i == CHOOSE i \in same : TRUE
                 IN /\ weekly_reports' =
                           [weekly_reports EXCEPT ![i] = report_data(me, now)]
                    /\ job' = [job EXCEPT ![j] =
                           [me EXCEPT !.pc = "done", !.result = Result(i)]]
            ELSE /\ weekly_reports' =
                        Append(weekly_reports, report_data(me, now))
                 /\ job' = [job EXCEPT ![j] =
                        [me EXCEPT !.pc = "done",
                                   !.result =
                                       Result(Len(weekly_reports) + 1)]]
    /\ UNCHANGED <<users, credit_transactions, generation_requests, handler,
                   creator, client, now>>

\* report_ref.set(report_data) on a new document (lines 117-142), and the
\* return of scheduleWeeklyReport; the write may raise.  A report's id is its
\* place in the collection.
SaveReport(j) ==
    /\ job[j].pc = "save"
    /\ \E raised \in BOOLEAN :
         LET me == job[j]
         IN IF raised
            THEN /\ job' = [job EXCEPT ![j] = JobRaised(me, "report")]
                 /\ UNCHANGED weekly_reports
            ELSE /\ weekly_reports' =
                        Append(weekly_reports, report_data(me, now))
                 /\ job' = [job EXCEPT ![j] =
                        [me EXCEPT !.pc = "done",
                                   !.result =
                                       Result(Len(weekly_reports) + 1)]]
    /\ UNCHANGED <<users, credit_transactions, generation_requests, handler,
                   creator, client, now>>

(* ----------------------- the store a report reads ---------------------- *)

\* A generation_requests document with the fields the report reads: what
\* GenerationRequest.to_dict() stored and the handler's update left.
RequestRecord(user_id, created_at, status, model, size) ==
    [exists |-> TRUE, userId |-> user_id, size |-> size,
     creditsCharged |-> get_credit_cost(size).value, status |-> status,
     model |-> model, style |-> "realistic", color |-> "vibrant",
     createdAt |-> created_at]

RECURSIVE Copies(_, _)
\* n documents alike.
\* A request document that carries none of model, style, color, size and
\* creditsCharged: one that createGenerationRequest did not write.
UnlabelledRecord(user_id, created_at, status) ==
    [exists |-> TRUE, userId |-> user_id, status |-> status,
     createdAt |-> created_at]

Copies(doc, n) == IF n = 0 THEN <<>> ELSE Append(Copies(doc, n - 1), doc)

\* The credit_transactions one request leaves.
RecordsOfRequest(doc, id, refunded) ==
    LET deduction == Stamped(CreditTransaction(doc.userId, "deduction",
                                               doc.creditsCharged, id),
                             doc.createdAt)
        refund == Stamped(CreditTransaction(doc.userId, "refund",
                                            doc.creditsCharged, id),
                          doc.createdAt)
    IN IF "creditsCharged" \notin DOMAIN doc THEN <<>>
       ELSE IF doc.status = "failed" /\ refunded THEN <<deduction, refund>>
       ELSE <<deduction>>

RECURSIVE RecordsFor(_, _, _)
\* The credit_transactions the first n requests left: a deduction each,
\* written with the request, and a refund for a failed one where the refund
\* was made.
RecordsFor(requests, n, refunded) ==
    IF n = 0 THEN <<>>
    ELSE RecordsFor(requests, n - 1, refunded)
         \o RecordsOfRequest(requests[n], n, refunded)

\* The record create_user_with_credits wrote for an account.
Grant(user_id, credits, timestamp) ==
    Stamped(CreditTransaction(user_id, "credit", credits, NoRequestId),
            timestamp)

\* A whole run of generate_weekly_report at time t that nothing interrupted
\* and no store call failed: the report it wrote.
ReportAt(requests, transactions, reports, t) ==
    LET end_date == TruncateToDay(t)
        start_date == end_date - Week
        found == Where(requests, "createdAt", start_date, end_date)
        c == CountRequests(found, Len(found))
        records == Where(transactions, "timestamp", start_date, end_date)
        s == SumTransactions(records, Len(records))
        previous_report == CHOOSE r \in PreviousReports(reports, start_date) :
                               TRUE
        me == [start_date |-> start_date, end_date |-> end_date,
               anomalies |-> detect_anomalies(c.total_requests,
                                              c.failed_requests,
                                              c.requests_by_model,
                                              previous_report)] @@ c @@ s
    IN report_data(me, t)

(* ------------------------- weekly report runs -------------------------- *)

\* Runs are followed over MaxWeeks Mondays; the store starts with up to
\* MaxRecords requests of each kind, and the account with SpareCredits
\* credits left.
MaxWeeks == 2
MaxRecords == 1
SpareCredits == 1

\* The requests made between two instants that the clock passes in one step:
\* none, or one of the first size, stamped at the later instant or one tick
\* before it.
Arrivals(from, to) ==
    {<<>>} \cup {<<RequestRecord("u1", t, status, "Model A", "512x512")>> :
                    t \in {to - 1, to} \ (0 .. from),
                    status \in {"completed", "failed"}}

\* Time passes to a later tick of the Monday or to the next Monday, and the
\* createGenerationRequest handlers that ran meanwhile left their request,
\* its deduction and, for a failed one, its refund.
Advance ==
    /\ \E t \in {now + 1, (now \div Week + 1) * Week} :
         /\ IsMonday(t)
         /\ t < (MaxWeeks + 1) * Week
         /\ now' = t
         /\ \E batch \in Arrivals(now, t) :
              /\ generation_requests' = generation_requests \o batch
              /\ IF batch = <<>>
                 THEN UNCHANGED <<users, credit_transactions>>
                 ELSE LET doc == batch[1]
                      IN /\ users["u1"].credits >= doc.creditsCharged
                         /\ credit_transactions' =
                                credit_transactions
                                \o RecordsOfRequest(
                                       doc, Len(generation_requests) + 1, TRUE)
                         /\ users' = [users EXCEPT !["u1"].credits =
                                IF doc.status = "failed" THEN @
                                ELSE @ - doc.creditsCharged]
    /\ UNCHANGED <<handler, creator, client, weekly_reports, job>>

ReportInit ==
    /\ weekly_reports = <<>>
    /\ now = Week
    /\ job = [j \in Jobs |-> IdleJob]
    /\ handler = [h \in Handlers |-> IdleHandler]
    /\ creator = IdleCreator
    /\ client = IdleClient
    /\ \E first, last, failed, boundary \in 0 .. MaxRecords :
         LET requests ==
                 Copies(RequestRecord("u1", 0, "completed", "Model A",
                                      "512x512"), first)
                 \o Copies(RequestRecord("u1", Week - 1, "completed",
                                         "Model A", "512x512"), last)
                 \o Copies(RequestRecord("u1", Week - 1, "failed", "Model B",
                                         "1024x1024"), failed)
                 \o Copies(RequestRecord("u1", Week, "completed", "Model A",
                                         "512x512"), boundary)
             charged == first + last + boundary
         IN /\ generation_requests = requests
            /\ credit_transactions =
                   <<Grant("u1", charged + SpareCredits, 0)>>
                   \o RecordsFor(requests, Len(requests), TRUE)
            /\ users = [u \in Users |-> IF u = "u1" THEN UserDoc(SpareCredits)
                                        ELSE NoDoc]

ReportNext ==
    \/ \E j \in Jobs : ScanRequests(j)
    \/ \E j \in Jobs : ScanTransactions(j)
    \/ \E j \in Jobs : DetectAnomalies(j)
    \/ \E j \in Jobs : SaveReport(j)
    \/ Advance

ReportSpec == ReportInit /\ [][ReportNext]_vars

(* ----------------------- one run over one week ------------------------- *)

\* The week before the run holds up to MaxPrevious requests; the week of the
\* run up to MaxCompleted completed and MaxFailed failed requests of the
\* first model and size, MaxPending pending and MaxOther completed requests
\* of the second model, and MaxLate requests stamped at the end of the window.
MaxPrevious == 2
MaxCompleted == 9
MaxFailed == 2
MaxPending == 1
MaxOther == 1
MaxLate == 1
MaxUnlabelled == 1

\* The store on the second Monday at noon: u1's requests of the week before,
\* u2's account opened at the start of the week and u2's requests of the
\* week, the failed ones refunded or not, one of them possibly a document
\* without attributes; the report of the week before was
\* written on the first Monday, or that run did not happen.
WeekInit ==
    /\ now = 2 * Week + 1
    /\ job = [j \in Jobs |-> IdleJob]
    /\ handler = [h \in Handlers |-> IdleHandler]
    /\ creator = IdleCreator
    /\ client = IdleClient
    /\ \E previous \in 0 .. MaxPrevious, completed \in 0 .. MaxCompleted,
          failed \in 0 .. MaxFailed, pending \in 0 .. MaxPending,
          other \in 0 .. MaxOther, late \in 0 .. MaxLate,
          unlabelled \in 0 .. MaxUnlabelled,
          refunded \in BOOLEAN, reported \in BOOLEAN :
         LET before == Copies(RequestRecord("u1", Week - 1, "completed",
                                            "Model A", "512x512"), previous)
             during ==
                 Copies(RequestRecord("u2", Week, "completed", "Model A",
                                      "512x512"), completed)
                 \o Copies(RequestRecord("u2", 2 * Week - 1, "failed",
                                         "Model A", "512x512"), failed)
                 \o Copies(RequestRecord("u2", 2 * Week - 1, "pending",
                                         "Model B", "1024x1024"), pending)
                 \o Copies(RequestRecord("u2", 2 * Week - 1, "completed",
                                         "Model B", "1024x1792"), other)
                 \o Copies(RequestRecord("u2", 2 * Week, "completed",
                                         "Model A", "512x512"), late)
                 \o Copies(UnlabelledRecord("u2", 2 * Week - 1, "completed"),
                           unlabelled)
             requests == before \o during
             records == RecordsFor(requests, Len(requests), refunded)
             charged == completed + failed + late
                        + pending * get_credit_cost("1024x1024").value
                        + other * get_credit_cost("1024x1792").value
             transactions ==
                 <<Grant("u1", previous, 0)>>
                 \o SubSeq(records, 1, previous)
                 \o <<Grant("u2", charged, Week)>>
                 \o SubSeq(records, previous + 1, Len(records))
         IN /\ generation_requests = requests
            /\ credit_transactions = transactions
            /\ users = [u \in Users |->
                          IF u = "u1" THEN UserDoc(0)
                          ELSE UserDoc(IF refunded THEN failed ELSE 0)]
            /\ weekly_reports =
                   IF reported
                   THEN <<ReportAt(requests, transactions, <<>>, Week)>>
                   ELSE <<>>

WeekNext ==
    \/ ScanRequests(1)
    \/ ScanTransactions(1)
    \/ DetectAnomalies(1)
    \/ SaveReport(1)

WeekSpec == WeekInit /\ [][WeekNext]_vars

(* ------------------------ the validator alone --------------------------- *)

\* The greatest number of whitespace characters around a value tried.
MaxPad == 2

\* The values tried for the size and for the prompt of a body.
SizesTried ==
    {Str(s) : s \in VALID_SIZES \cup {"256x256", "1792x1024", ""}}
    \cup {Padded("512x512", 1), Number}
PromptsTried ==
    {PaddedPrompt(len, pad) :
        len \in {0, 1, MaxPromptLength - 1, MaxPromptLength,
                 MaxPromptLength + 1},
        pad \in {0, MaxPad}}
    \cup {Number}

\* Bodies whose other fields are valid, and bodies with one more defect.
PayloadsTried ==
    LET data == ValidPayload("u1", "512x512")
    IN {[d EXCEPT !.size = size, !.prompt = prompt] :
           d \in {data, [data EXCEPT !.userId = Padded("u1", 1)],
                  [data EXCEPT !.color = Str("sepia")]},
           size \in SizesTried, prompt \in PromptsTried}
       \cup {Without(data, "size"), Without(data, "prompt")}

\* A caller of the validator: the body, the validation result and the cost.
ValidatorCall(data) ==
    [pc |-> "validate", data |-> data, validation_result |-> NoResult,
     credit_cost |-> NoResult]

ValidatorInit ==
    /\ NoReports
    /\ users = [u \in Users |-> NoDoc]
    /\ credit_transactions = <<>>
    /\ generation_requests = [r \in Handlers |-> NoDoc]
    /\ handler = [h \in Handlers |-> IdleHandler]
    /\ creator = IdleCreator
    /\ \E data \in PayloadsTried : client = ValidatorCall(data)

\* validator.validate_generation_request(data)
Validate ==
    /\ client.pc = "validate"
    /\ client' = [client EXCEPT
           !.pc = "cost",
           !.validation_result = Result(validate_generation_request(client.data))]
    /\ UNCHANGED <<users, credit_transactions, generation_requests, handler,
                   creator>>
    /\ UNCHANGED report_vars

\* validator.get_credit_cost(size) for the size string of the body.
GetCreditCost ==
    /\ client.pc = "cost"
    /\ "size" \in DOMAIN client.data
    /\ client.data.size.kind = "str"
    /\ client' = [client EXCEPT
           !.pc = "done",
           !.credit_cost = Result(get_credit_cost(Raw(client.data.size)))]
    /\ UNCHANGED <<users, credit_transactions, generation_requests, handler,
                   creator>>
    /\ UNCHANGED report_vars

ValidatorNext ==
    \/ Validate
    \/ GetCreditCost

ValidatorSpec == ValidatorInit /\ [][ValidatorNext]_vars

(* ------------------------------ claims --------------------------------- *)

\* C1: under every interleaving of createGenerationRequest handlers and
\* refunds on the same user, the stored credit balance is never below zero.
C1_BalanceNeverNegative ==
    \A u \in Users : users[u].exists => users[u].credits >= 0

\* Two requests of one user passed the balance check read outside the
\* transaction, the first is charged, and what is left no longer covers the
\* second, which has not run its transaction yet.
C1_Witness ==
    \E h1, h2 \in Handlers :
        /\ h1 # h2
        /\ handler[h1].user_id = handler[h2].user_id
        /\ RecordsOf("deduction", h1) # {}
        /\ handler[h2].pc = "charge"
        /\ handler[h2].user_credits >= handler[h2].credit_cost
        /\ users[handler[h2].user_id].exists
        /\ users[handler[h2].user_id].credits < handler[h2].credit_cost

\* C2: whenever no create_user_with_credits call is in progress and the last
\* one did not fail, every stored balance equals the sum of the user's credit
\* records plus refund records minus deduction records.
C2_BalanceIsLedgerSum ==
    (creator.pc = "idle" /\ creator.result # "False") =>
        \A u \in Users :
            Balance(u) = Total("credit", u) + Total("refund", u)
                         - Total("deduction", u)

\* C3: a request record r exists exactly when one deduction record for r
\* exists, of the same user and of creditsCharged credits; and the step that
\* creates the record creates it pending, together with that deduction
\* record and the balance decrement.
C3_RecordMatchesDeduction ==
    \A r \in Handlers :
        /\ generation_requests[r].exists <=>
               Cardinality(RecordsOf("deduction", r)) = 1
        /\ Cardinality(RecordsOf("deduction", r)) <= 1
        /\ \A i \in RecordsOf("deduction", r) :
               /\ credit_transactions[i].userId = generation_requests[r].userId
               /\ credit_transactions[i].credits =
                      generation_requests[r].creditsCharged

C3_CreatedWithCharge ==
    \A r \in Handlers :
        (~generation_requests[r].exists /\ generation_requests'[r].exists) =>
            LET doc == generation_requests'[r]
                n == Len(credit_transactions')
            IN /\ doc.status = "pending"
               /\ n = Len(credit_transactions) + 1
               /\ Unstamped(credit_transactions'[n]) =
                      CreditTransaction(doc.userId, "deduction",
                                        doc.creditsCharged, r)
               /\ users[doc.userId].exists
               /\ users'[doc.userId] =
                      UserDoc(users[doc.userId].credits - doc.creditsCharged)

\* C3, as one formula: the record and its deduction exist together in every
\* state, and every step that creates a record is the charge's commit.
C3_AtomicCharge ==
    [](C3_RecordMatchesDeduction) /\ [][C3_CreatedWithCharge]_vars

\* A request record exists with its deduction record.
C3_Witness ==
    \E r \in Handlers :
        /\ generation_requests[r].exists
        /\ generation_requests[r].status = "pending"
        /\ RecordsOf("deduction", r) # {}

\* C4: a request has at most one refund record; it is for the user and the
\* credits of the request's deduction, and it is written only for a request
\* whose gateway call failed.
C4_RefundOnlyOnGatewayFailure ==
    \A r \in Handlers :
        /\ Cardinality(RecordsOf("refund", r)) <= 1
        /\ \A i \in RecordsOf("refund", r) :
               /\ \E j \in RecordsOf("deduction", r) :
                      /\ credit_transactions[j].userId =
                             credit_transactions[i].userId
                      /\ credit_transactions[j].credits =
                             credit_transactions[i].credits
               /\ handler[r].gateway = "error"

\* C5: a request record's status changes only from pending, to completed
\* after the gateway succeeded or to failed after the gateway failed; a
\* completed or failed record is never modified again.
C5_StatusTransitions ==
    [][\A r \in Handlers :
          (/\ generation_requests[r].exists
           /\ generation_requests'[r] # generation_requests[r]) =>
              /\ generation_requests[r].status = "pending"
              /\ \/ /\ generation_requests'[r].status = "completed"
                    /\ handler[r].gateway = "ok"
                 \/ /\ generation_requests'[r].status = "failed"
                    /\ handler[r].gateway = "error"]_vars

\* C6: a handler whose gateway call failed has, when it returns, marked the
\* request record failed and committed one refund of the charged amount for
\* the request, and answers with creditsRefunded equal to that amount.
C6_GatewayFailureRefunded ==
    \A h \in Handlers :
        (handler[h].pc = "done" /\ handler[h].gateway = "error") =>
            /\ generation_requests[h].status = "failed"
            /\ Cardinality(RecordsOf("refund", h)) = 1
            /\ \A i \in RecordsOf("refund", h) :
                   /\ credit_transactions[i].userId = handler[h].user_id
                   /\ credit_transactions[i].credits = handler[h].credit_cost
            /\ handler[h].response =
                   GenerationFailed(GatewayError, handler[h].credit_cost)

\* C7: whenever the generation-failure response with creditsRefunded = c has
\* been returned for a request, a refund record of c credits for that request
\* has been committed.
C7_RefundedMeansCommitted ==
    \A h \in Handlers :
        (\E details \in {GatewayError, StoreError} :
            handler[h].response =
                GenerationFailed(details, handler[h].credit_cost)) =>
            \E i \in RecordsOf("refund", h) :
                /\ credit_transactions[i].userId = handler[h].user_id
                /\ credit_transactions[i].credits = handler[h].credit_cost

\* C8: when deduct_credits returned False inside the transaction, nothing is
\* committed (no request record, no deduction record, no balance change),
\* the gateway is never invoked for the request and the answer is a failure.
C8_NothingCommitted ==
    \A h \in Handlers :
        handler[h].success = "False" =>
            /\ handler[h].pc = "done"
            /\ handler[h].response = InternalError
            /\ ~generation_requests[h].exists
            /\ RecordsOf("deduction", h) = {}
            /\ handler[h].gateway = "none"

C8_RefusalWritesNothing ==
    \A h \in Handlers :
        (handler[h].success # "False" /\ handler'[h].success = "False") =>
            UNCHANGED <<users, credit_transactions, generation_requests>>

\* C8, as one formula: a refused charge leaves nothing behind in any state,
\* and the step in which deduct_credits returns False writes nothing.
C8_ChargeRefusedAborts ==
    [](C8_NothingCommitted) /\ [][C8_RefusalWritesNothing]_vars

\* The balance check outside the transaction passed, and inside it
\* deduct_credits found the balance below the cost and returned False.
C8_Witness ==
    \E h \in Handlers :
        /\ handler[h].success = "False"
        /\ handler[h].user_credits >= handler[h].credit_cost
        /\ handler[h].read.exists
        /\ handler[h].read.credits < handler[h].credit_cost
        /\ handler[h].response = InternalError

C10_Answered402 ==
    \A h \in Handlers :
        handler[h].response.status = 402 =>
            /\ handler[h].pc = "done"
            /\ handler[h].response.required = get_credit_cost(handler[h].size).value
            /\ handler[h].response.available = handler[h].user_credits
            /\ handler[h].response.available < handler[h].response.required
            /\ ~generation_requests[h].exists
            /\ \A i \in DOMAIN credit_transactions :
                   credit_transactions[i].generationRequestId # h
            /\ handler[h].success = "unset"

C10_CheckStep ==
    \A h \in Handlers :
        (/\ handler[h].pc = "idle"
         /\ handler'[h].pc # "idle"
         /\ EarlyResponse(handler'[h].request) = NoResponse) =>
            LET me == handler'[h]
            IN /\ UNCHANGED <<users, credit_transactions, generation_requests>>
               /\ me.user_credits \in {0, Balance(me.user_id)}
               /\ ~users[me.user_id].exists => me.user_credits = 0
               /\ me.user_credits < get_credit_cost(me.size).value
                      <=> me.response.status = 402
               /\ me.response.status # 402 => me.pc = "charge"

\* C10, as one formula: every 402 answered carries the cost and the balance
\* read, and the step of the balance check writes nothing.
C10_InsufficientCredits ==
    [](C10_Answered402) /\ [][C10_CheckStep]_vars

\* A 402 has been answered for an account whose balance, after an earlier
\* charge, is positive and below the cost.
C10_Witness ==
    \E h \in Handlers :
        /\ handler[h].response.status = 402
        /\ handler[h].response.available > 0
        /\ users[handler[h].user_id].exists

\* C11: a request that was the only operation on its user's balance, read a
\* balance b >= cost and met no exception after its gateway call succeeded,
\* is answered 200 with deductedCredits = cost; its record is completed,
\* exactly one deduction record of cost and no refund record exist for it,
\* and the balance is b - cost.
C11_Alone(h) ==
    /\ \A other \in Handlers \ {h} : handler[other].pc = "idle"
    /\ creator.calls = 1
    /\ client.calls = 0

C12_FieldsValid(data) ==
    /\ \A i \in DOMAIN required_fields : required_fields[i] \in DOMAIN data
    /\ data.userId.kind = "str" /\ data.userId.len > 0
    /\ In(data.model, VALID_MODELS)
    /\ In(data.style, VALID_STYLES)
    /\ In(data.color, VALID_COLORS)
    /\ In(data.size, VALID_SIZES)
    /\ data.prompt.kind = "str"
    /\ data.prompt.len > 0 /\ data.prompt.len <= MaxPromptLength

C12_Expected(req) ==
    IF req.method # "POST" THEN 405
    ELSE IF req.body = Null \/ DOMAIN req.body = {} THEN 400
    ELSE IF ~C12_FieldsValid(req.body) THEN 400
    ELSE 0

C12_Answered4xx ==
    \A h \in Handlers :
        (handler[h].pc # "idle" /\ C12_Expected(handler[h].request) # 0) =>
            /\ handler[h].pc = "done"
            /\ handler[h].response.status = C12_Expected(handler[h].request)
            /\ ~generation_requests[h].exists
            /\ \A i \in DOMAIN credit_transactions :
                   credit_transactions[i].generationRequestId # h

C12_RejectionStep ==
    \A h \in Handlers :
        (/\ handler[h].pc = "idle"
         /\ handler'[h].pc # "idle"
         /\ C12_Expected(handler'[h].request) # 0) =>
            UNCHANGED <<users, credit_transactions, generation_requests>>

C12_ClientErrors ==
    [](C12_Answered4xx) /\ [][C12_RejectionStep]_vars

\* C13: a refund_credits call that returns True has, in one step, set the
\* balance of an existing account to its balance plus the amount, whatever
\* that balance was, or created the account with the amount as its balance,
\* and appended exactly one refund record of the amount with the request id;
\* nothing else in the store changes, and no other step of the call writes.
C13_RefundStep ==
    client.pc \in {"refund_credits", "refund_commit"} =>
        LET u == client.user_id
            n == Len(credit_transactions)
        IN IF client.pc = "refund_commit" /\ client'.pc = "idle"
              /\ client'.result = Result("True")
           THEN /\ users'[u] = UserDoc(IF users[u].exists
                                       THEN users[u].credits + client.amount
                                       ELSE client.amount)
                /\ \A other \in Users \ {u} : users'[other] = users[other]
                /\ Len(credit_transactions') = n + 1
                /\ SubSeq(credit_transactions', 1, n) = credit_transactions
                /\ Unstamped(credit_transactions'[n + 1]) =
                       CreditTransaction(u, "refund", client.amount,
                                         client.request_id)
                /\ UNCHANGED generation_requests
           ELSE client'.pc # client.pc =>
                   UNCHANGED <<users, credit_transactions,
                               generation_requests>>

C13_RefundUnconditional == [][C13_RefundStep]_vars

\* An account that a first refund created and a second refund added to.
C13_Witness ==
    \E u \in Users :
        /\ users[u].exists
        /\ Total("credit", u) = 0
        /\ Cardinality({i \in DOMAIN credit_transactions :
               /\ credit_transactions[i].userId = u
               /\ credit_transactions[i].type = "refund"}) = 2
        /\ users[u].credits = Total("refund", u)
        /\ client.calls = 2 /\ client.pc = "idle"

\* C14: a refund_credits call that returned False met a store error, and
\* the step in which it returns False changes neither a balance nor the
\* transaction records.
C14_FalseMeansStoreError ==
    (client.op = "refund_credits" /\ client.result.returned) =>
        /\ client.result.value \in {"True", "False"}
        /\ client.result.value = "False" <=> client.raised

C14_FalseStep ==
    (/\ client.pc \in {"refund_credits", "refund_commit"}
     /\ client'.pc = "idle"
     /\ client'.result = Result("False")) =>
        UNCHANGED <<users, credit_transactions, generation_requests>>

C14_RefundFalse ==
    [](C14_FalseMeansStoreError) /\ [][C14_FalseStep]_vars

\* refund_credits returned False after a store error, for an account that
\* exists.
C14_Witness ==
    /\ client.op = "refund_credits"
    /\ client.pc = "idle"
    /\ client.result = Result("False")
    /\ client.raised
    /\ users[client.user_id].exists

\* C15: every step that writes a balance appends, in the same step, exactly
\* one transaction record of that user whose type and credits account for
\* the change, and every step that appends a transaction record writes the
\* balance of the record's user; this holds for create_user_with_credits
\* too, and whatever store call fails.
C15_Signed(doc) == IF doc.type = "deduction" THEN 0 - doc.credits
                   ELSE doc.credits

C15_WriteStep ==
    LET n == Len(credit_transactions)
    IN /\ \A u \in Users :
              users'[u] # users[u] =>
                  /\ Len(credit_transactions') = n + 1
                  /\ SubSeq(credit_transactions', 1, n) = credit_transactions
                  /\ credit_transactions'[n + 1].userId = u
                  /\ credit_transactions'[n + 1].type # "credit" =>
                        users'[u].credits = Balance(u) +
                            C15_Signed(credit_transactions'[n + 1])
                  /\ credit_transactions'[n + 1].type = "credit" =>
                        users'[u].credits =
                            credit_transactions'[n + 1].credits
       /\ credit_transactions' # credit_transactions =>
              /\ Len(credit_transactions') = n + 1
              /\ \E u \in Users :
                     /\ credit_transactions'[n + 1].userId = u
                     /\ users'[u].exists
                     /\ users'[u] # users[u] \/
                            credit_transactions'[n + 1].type = "credit"

C15_BalanceWithRecord == [][C15_WriteStep]_vars

\* C16: create_user_with_credits returns False only after a store error,
\* also for a user whose account exists: a call that meets no store error
\* sets the balance to the initial credits and appends one more credit
\* record of the initial credits, so two calls for one user leave two
\* credit records.
C16_FalseMeansStoreError ==
    /\ creator.result = "False" <=> (creator.pc = "idle" /\ creator.raised)
    /\ (creator.pc = "idle" /\ creator.calls > 0) =>
           creator.result \in {"True", "False"}

C16_CreateStep ==
    LET n == Len(credit_transactions)
    IN /\ (creator.pc = "idle" /\ creator'.pc = "record") =>
              users'[creator'.user_id] = UserDoc(creator'.initial_credits)
       /\ (creator.pc = "record" /\ creator'.result = "True") =>
              /\ Len(credit_transactions') = n + 1
              /\ SubSeq(credit_transactions', 1, n) = credit_transactions
              /\ Unstamped(credit_transactions'[n + 1]) =
                     CreditTransaction(creator.user_id, "credit",
                                       creator.initial_credits, NoRequestId)

C16_CreateNotIdempotent ==
    [](C16_FalseMeansStoreError) /\ [][C16_CreateStep]_vars

\* Two calls for one user, and nothing else, have returned: two credit
\* records of the initial credits, and a balance of the initial credits.
C16_Witness ==
    /\ creator.pc = "idle" /\ creator.calls = 2 /\ creator.result = "True"
    /\ client.calls = 0
    /\ Len(credit_transactions) = 2
    /\ \A i \in {1, 2} :
           Unstamped(credit_transactions[i]) =
               CreditTransaction(creator.user_id, "credit", MaxInitialCredits,
                                 NoRequestId)
    /\ users[creator.user_id] = UserDoc(MaxInitialCredits)

\* C17: a Credit Ledger call during which the store raised returns to its
\* caller all the same: get_user_credits 0, deduct_credits False,
\* refund_credits False, get_transaction_history the empty list and
\* create_user_with_credits False.
C17_ErrorValue(op) ==
    CASE op = "get_user_credits" -> 0
      [] op = "deduct_credits" -> "False"
      [] op = "refund_credits" -> "False"
      [] op = "get_transaction_history" -> <<>>

C17_NoExceptionPropagates ==
    /\ client.raised =>
           /\ client.pc = "idle"
           /\ client.result = Result(C17_ErrorValue(client.op))
    /\ creator.raised =>
           /\ creator.pc = "idle"
           /\ creator.result = "False"

\* get_transaction_history met a store error for a user who has records,
\* and create_user_with_credits has met one too.
C17_Witness ==
    /\ client.raised
    /\ client.op = "get_transaction_history"
    /\ \E i \in DOMAIN credit_transactions :
           credit_transactions[i].userId = client.user_id
    /\ creator.raised

\* C18: the step of get_user_credits and the step of
\* get_transaction_history leave the whole store unchanged, whether the
\* store raised or not; get_user_credits returns the stored credits, or 0
\* for an account that does not exist, which still does not exist after.
C18_ReadStep ==
    (/\ client.pc \in {"get_user_credits", "get_transaction_history"}
     /\ client'.pc # client.pc) =>
        /\ UNCHANGED <<users, credit_transactions, generation_requests>>
        /\ client'.pc = "idle"
        /\ (client.pc = "get_user_credits" /\ ~client'.raised) =>
               client'.result =
                   Result(IF users[client.user_id].exists
                          THEN users[client.user_id].credits ELSE 0)

C18_PureReads == [][C18_ReadStep]_vars

\* get_user_credits returned 0 for an account that does not exist, while
\* another account does.
C18_Witness ==
    /\ client.op = "get_user_credits"
    /\ client.pc = "idle"
    /\ ~client.raised
    /\ client.result = Result(0)
    /\ ~users[client.user_id].exists
    /\ \E u \in Users : users[u].exists

\* C19: get_transaction_history(user_id, limit) returns documents of
\* credit_transactions that all belong to user_id, each once, in strictly
\* descending timestamp order, as many as the user has but at most limit,
\* and every document of the user left out is older than all returned.
C19_History ==
    (/\ client.op = "get_transaction_history"
     /\ client.result.returned
     /\ ~client.raised) =>
        LET found == client.result.value
            mine == {i \in DOMAIN credit_transactions :
                        credit_transactions[i].userId = client.user_id}
        IN /\ Len(found) = IF client.limit < Cardinality(mine)
                           THEN client.limit ELSE Cardinality(mine)
           /\ \A k \in DOMAIN found :
                  /\ found[k].userId = client.user_id
                  /\ \E i \in mine : credit_transactions[i] = found[k]
           /\ \A k, l \in DOMAIN found :
                  k < l => found[k].timestamp > found[l].timestamp
           /\ \A i \in mine :
                  (\A k \in DOMAIN found : found[k] # credit_transactions[i])
                      => \A k \in DOMAIN found :
                            credit_transactions[i].timestamp <
                                found[k].timestamp

\* Of three documents of one user, not stored in timestamp order, the two
\* newest were returned for limit 2.
C19_Witness ==
    /\ client.op = "get_transaction_history"
    /\ client.result.returned
    /\ ~client.raised
    /\ client.limit = 2
    /\ Len(credit_transactions) = MaxDocs
    /\ \A i \in DOMAIN credit_transactions :
           credit_transactions[i].userId = client.user_id
    /\ credit_transactions[1].timestamp < credit_transactions[2].timestamp
    /\ credit_transactions[3].timestamp < credit_transactions[2].timestamp
    /\ Len(client.result.value) = 2
    /\ client.result.value[1] = credit_transactions[2]

\* C20: every 500 answered is the generic one, whose body is only the error
\* "Internal server error", unless the gateway call of the request failed,
\* and then its details are the gateway's reason; a handler that caught a
\* store exception answers with the generic one.
C20_GenericInternalError ==
    \A h \in Handlers :
        LET me == handler[h]
        IN /\ me.response.status = 500 =>
                \/ me.response = InternalError
                \/ /\ me.gateway = "error"
                   /\ me.response = GenerationFailed(GatewayError,
                                                     me.credit_cost)
           /\ (me.pc = "done" /\ me.e = StoreError) =>
                me.response = InternalError

(* C21: gateway calls *)

\* A step of request h in which generate_image runs.
C21_GatewayCall(h) ==
    handler[h].pc = "generate" /\ handler'[h] # handler[h]

\* C21: for each request the gateway is invoked at most once, only after the
\* charge transaction has committed (the request record and its deduction
\* record are stored), never while the request's store transaction is open,
\* and the call writes nothing to the store.
C21_GatewayStep ==
    \A h \in Handlers :
        /\ handler'[h].gateway # handler[h].gateway => C21_GatewayCall(h)
        /\ C21_GatewayCall(h) =>
              /\ handler[h].gateway = "none"
              /\ handler'[h].gateway \in {"ok", "error"}
              /\ handler'[h].pc # "generate"
              /\ ~handler[h].tx_open
              /\ handler[h].success = "True"
              /\ generation_requests[h].exists
              /\ RecordsOf("deduction", h) # {}
              /\ UNCHANGED <<users, credit_transactions, generation_requests>>

C21_GatewayOnceAfterCommit ==
    /\ [](\A h \in Handlers :
            /\ handler[h].pc = "generate" => ~handler[h].tx_open
            /\ handler[h].gateway # "none" => generation_requests[h].exists)
    /\ [][C21_GatewayStep]_vars

C21_Witness ==
    \E h, k \in Handlers :
        /\ handler[h].gateway = "error" /\ handler[h].pc = "done"
        /\ handler[k].gateway = "ok" /\ handler[k].pc = "done"

(* C22: the window of a run *)

\* The requests created in [start, end).
C22_Created(start, end) ==
    {i \in DOMAIN generation_requests :
        /\ start <= generation_requests[i].createdAt
        /\ generation_requests[i].createdAt < end}

RECURSIVE C22_Credits(_, _, _, _)
\* The credits of the records of one type stamped in [start, end), among the
\* first n.
C22_Credits(type, start, end, n) ==
    IF n = 0 THEN 0
    ELSE LET doc == credit_transactions[n]
         IN C22_Credits(type, start, end, n - 1)
            + IF doc.type = type /\ start <= doc.timestamp
                 /\ doc.timestamp < end
              THEN doc.credits ELSE 0

\* A run that scanned the requests took D, the start of the day it runs on,
\* as the end of its window and D - 7 days as its start, and counted the
\* requests created from the start on and before D; a run that scanned the
\* transactions summed the records stamped in the same window.
C22_ScanStep ==
    \A j \in Jobs :
        LET me == job'[j]
            D == me.end_date
        IN /\ (job[j].pc = "idle" /\ me.pc = "transactions") =>
                /\ D % TicksPerDay = 0
                /\ D <= now /\ now < D + TicksPerDay
                /\ me.start_date = D - ReportDays * TicksPerDay
                /\ me.total_requests
                       = Cardinality(C22_Created(me.start_date, D))
           /\ (job[j].pc = "transactions" /\ me.pc = "anomalies") =>
                /\ me.start_date = job[j].start_date /\ D = job[j].end_date
                /\ me.total_credits_consumed
                       = C22_Credits("deduction", me.start_date, D,
                                     Len(credit_transactions))
                /\ me.total_credits_refunded
                       = C22_Credits("refund", me.start_date, D,
                                     Len(credit_transactions))

\* C22: each report run uses the half-open window [D - 7 days, D) with D the
\* run time truncated to the day; the windows of the weekly runs run from
\* Monday to Monday, so that they neither overlap nor leave a gap and each
\* timestamp lies in the window of one week's run, and a record stamped at a
\* boundary D is left out of the window ending at D and counted in the window
\* starting at D.
C22_WeeklyWindows ==
    /\ [](\A j \in Jobs :
            job[j].pc # "idle" =>
                /\ job[j].start_date % Week = 0
                /\ job[j].end_date = job[j].start_date + Week)
    /\ [][C22_ScanStep]_vars

\* Two reports of successive weeks, written by runs at Monday noon, and a
\* request stamped at their common boundary: the later report counts it and
\* the earlier does not.
C22_Witness ==
    \E a, b \in DOMAIN weekly_reports :
        /\ weekly_reports[a].weekEndDate = weekly_reports[b].weekStartDate
        /\ weekly_reports[a].createdAt = weekly_reports[a].weekEndDate.iso + 1
        /\ weekly_reports[b].createdAt = weekly_reports[b].weekEndDate.iso + 1
        /\ weekly_reports[a].totalRequests = 0
        /\ weekly_reports[b].totalRequests = 1
        /\ weekly_reports[b].totalCreditsConsumed = 1
        /\ \E i \in DOMAIN generation_requests :
              generation_requests[i].createdAt
                  = weekly_reports[b].weekStartDate.iso

(* C23: request counts and success rate *)

\* The report the run of job j wrote.
WrittenBy(j) == weekly_reports[job[j].result.value]

\* The requests in the window of a report, all or those of one status.
C23_InWindow(report) ==
    {i \in DOMAIN generation_requests :
        /\ report.weekStartDate.iso <= generation_requests[i].createdAt
        /\ generation_requests[i].createdAt < report.weekEndDate.iso}
C23_WithStatus(report, status) ==
    {i \in C23_InWindow(report) : generation_requests[i].status = status}

\* C23: a run that completed wrote a report, also for an empty window, in
\* which totalRequests is the number of request records in the window,
\* successfulRequests the number of them with status completed and
\* failedRequests the number with status failed, pending requests counting
\* toward the total only; successRate is successful/total*100 to two
\* decimals (held in hundredths), and 0 when the window is empty.
C23_RequestCounts ==
    \A j \in Jobs :
        (job[j].pc = "done" /\ ~job[j].raised) =>
            /\ job[j].result.returned
            /\ job[j].result.value \in DOMAIN weekly_reports
            /\ LET report == WrittenBy(j)
                   total == Cardinality(C23_InWindow(report))
                   successful ==
                       Cardinality(C23_WithStatus(report, "completed"))
                   failed == Cardinality(C23_WithStatus(report, "failed"))
                   pending == Cardinality(C23_WithStatus(report, "pending"))
               IN /\ report.totalRequests = total
                  /\ report.successfulRequests = successful
                  /\ report.failedRequests = failed
                  /\ total = successful + failed + pending
                  /\ IF total = 0 THEN report.successRate = 0
                     ELSE 2 * Abs(report.successRate * total
                                  - 10000 * successful) <= total

\* A report over one completed, one failed and one pending request: three
\* requests, a success rate of 33.33.
C23_Witness ==
    /\ job[1].pc = "done" /\ job[1].result.returned
    /\ WrittenBy(1).totalRequests = 3
    /\ WrittenBy(1).successfulRequests = 1
    /\ WrittenBy(1).failedRequests = 1
    /\ WrittenBy(1).successRate = 3333

(* C24: credit sums *)

\* C24: in the report of a run, totalCreditsConsumed is the sum of credits
\* over the deduction records stamped in the window and totalCreditsRefunded
\* the sum over the refund records stamped in it, records of type credit add
\* to neither, and netCreditsUsed is their difference.
C24_CreditSums ==
    \A j \in Jobs :
        (job[j].pc = "done" /\ ~job[j].raised) =>
            LET report == WrittenBy(j)
                start == report.weekStartDate.iso
                end == report.weekEndDate.iso
                n == Len(credit_transactions)
            IN /\ report.totalCreditsConsumed
                      = C22_Credits("deduction", start, end, n)
               /\ report.totalCreditsRefunded
                      = C22_Credits("refund", start, end, n)
               /\ report.netCreditsUsed
                      = report.totalCreditsConsumed
                        - report.totalCreditsRefunded

\* A report over a window that holds deductions, a refund and the credit
\* record of an account opened in it.
C24_Witness ==
    /\ job[1].pc = "done" /\ job[1].result.returned
    /\ WrittenBy(1).totalCreditsConsumed = 3
    /\ WrittenBy(1).totalCreditsRefunded = 1
    /\ WrittenBy(1).netCreditsUsed = 2
    /\ C22_Credits("credit", WrittenBy(1).weekStartDate.iso,
                   WrittenBy(1).weekEndDate.iso, Len(credit_transactions)) > 0

(* C25: credits by size *)

RECURSIVE C25_Charged(_, _, _)
\* The creditsCharged of the completed requests of one size in the window of
\* a report, among the first n requests.
C25_Charged(report, size, n) ==
    IF n = 0 THEN 0
    ELSE C25_Charged(report, size, n - 1)
         + IF /\ n \in C23_WithStatus(report, "completed")
              /\ Get(generation_requests[n], "size", "Unknown") = size
           THEN Get(generation_requests[n], "creditsCharged", 0) ELSE 0

\* C25: in the report of a run, creditsBySize[s] is the sum of creditsCharged
\* over the window's requests of size s whose status is completed, and a size
\* without a completed request has no entry; failed and pending requests add
\* nothing to it, while requestsBySize[s] counts the window's requests of
\* size s of every status.
C25_CreditsBySize ==
    \A j \in Jobs :
        (job[j].pc = "done" /\ ~job[j].raised) =>
            LET report == WrittenBy(j)
            IN \A s \in VALID_SIZES :
                  LET all == {i \in C23_InWindow(report) :
                                 Get(generation_requests[i], "size",
                                     "Unknown") = s}
                      completed == all \cap C23_WithStatus(report, "completed")
                  IN /\ Get(report.requestsBySize, s, 0) = Cardinality(all)
                     /\ Get(report.creditsBySize, s, 0)
                            = C25_Charged(report, s, Len(generation_requests))
                     /\ s \in DOMAIN report.creditsBySize <=> completed # {}
                     /\ s \in DOMAIN report.requestsBySize <=> all # {}

\* A report over a size with a completed and a failed request, and a size
\* with a pending request only.
C25_Witness ==
    /\ job[1].pc = "done" /\ job[1].result.returned
    /\ Get(WrittenBy(1).requestsBySize, "512x512", 0) = 2
    /\ Get(WrittenBy(1).requestsBySize, "1024x1024", 0) = 1
    /\ DOMAIN WrittenBy(1).creditsBySize = {"512x512"}
    /\ WrittenBy(1).creditsBySize["512x512"] = 1
    /\ WrittenBy(1).failedRequests = 1

(* C26: request volume spike *)

\* The reports stored for the week before the week of a report.
PriorReports(report) ==
    {i \in DOMAIN weekly_reports :
        weekly_reports[i].weekStartDate
            = isoformat(report.weekStartDate.iso - ReportDays * TicksPerDay)}

\* The anomalies of one type in a report.
AnomaliesOf(report, type) ==
    {k \in DOMAIN report.anomalies : report.anomalies[k].type = type}

\* A run that wrote its report.
Completed(j) == job[j].pc = "done" /\ ~job[j].raised

\* A run that wrote its report after its lookup of the previous report
\* returned.
Detected(j) == Completed(j) /\ ~job[j].anomaly_error

\* What the claim says of a report: a request_volume_spike anomaly if and
\* only if a report whose weekStartDate is the current week start minus 7
\* days is stored with totalRequests p > 0 and |c - p| / p * 100 > 50 for
\* the current total c, of severity high iff that percentage is above 100
\* and medium otherwise; none without such a report or with p = 0.
C26_Spike(report) ==
    LET c == report.totalRequests
        spikes == AnomaliesOf(report, "request_volume_spike")
        Changed(percent) ==
            \E i \in PriorReports(report) :
                LET p == weekly_reports[i].totalRequests
                IN p > 0 /\ Abs(c - p) * 100 > percent * p
    IN /\ spikes # {} <=> Changed(50)
       /\ Cardinality(spikes) <= 1
       /\ \A k \in spikes :
             /\ report.anomalies[k].severity
                    = IF Changed(100) THEN "high" ELSE "medium"
             /\ report.anomalies[k].currentValue = c
             /\ \E i \in PriorReports(report) :
                   report.anomalies[k].previousValue
                       = weekly_reports[i].totalRequests

\* C26 as stated: every report of a run holds the anomaly exactly when the
\* stored prior report calls for it.
C26_SpikeWheneverStored ==
    \A j \in Jobs : Completed(j) => C26_Spike(WrittenBy(j))

\* C26: the report of a run whose lookup of the prior report returned holds
\* a request_volume_spike anomaly if and only if a report whose
\* weekStartDate is the current week start minus 7 days is stored with
\* totalRequests p > 0 and |c - p| / p * 100 > 50, of severity high iff the
\* percentage is above 100 and medium otherwise, and none without a prior
\* report or with p = 0; the report of a run whose lookup raised holds none,
\* whatever is stored.
C26_VolumeSpike ==
    \A j \in Jobs :
        Completed(j) =>
            IF job[j].anomaly_error
            THEN AnomaliesOf(WrittenBy(j), "request_volume_spike") = {}
            ELSE C26_Spike(WrittenBy(j))

\* Five requests after a week of two: a spike of severity high.
C26_Witness ==
    /\ Detected(1)
    /\ \E k \in AnomaliesOf(WrittenBy(1), "request_volume_spike") :
          /\ WrittenBy(1).anomalies[k].severity = "high"
          /\ WrittenBy(1).anomalies[k].currentValue = 5
          /\ WrittenBy(1).anomalies[k].previousValue = 2

(* C27: high failure rate *)

\* What the claim says of a report: with total > 0 and failed/total*100 > 10
\* exactly one high_failure_rate anomaly, of severity high iff the rate is
\* above 20 and medium otherwise, carrying the rate; none otherwise.
C27_Flagged(report) ==
    LET total == report.totalRequests
        failed == report.failedRequests
        entries == AnomaliesOf(report, "high_failure_rate")
    IN IF total > 0 /\ failed * 100 > 10 * total
       THEN /\ Cardinality(entries) = 1
            /\ \A k \in entries :
                  /\ report.anomalies[k].severity
                         = IF failed * 100 > 20 * total
                           THEN "high" ELSE "medium"
                  /\ report.anomalies[k].failureRate
                         = Percent(failed, total)
       ELSE entries = {}

\* C27 as stated: every report of a run, written with a prior report or
\* without one, is flagged for its failure rate as above.
C27_AlwaysFlagged ==
    \A j \in Jobs : Completed(j) => C27_Flagged(WrittenBy(j))

\* C27: the report of a run whose lookup of the previous report returned,
\* with a prior report or without one, holds exactly one high_failure_rate
\* anomaly when total > 0 and failed/total*100 > 10, of severity high iff
\* the rate is above 20 and medium otherwise, and none when total = 0 or the
\* rate is at most 10; the report of a run whose lookup raised holds no
\* anomaly whatever its failure rate.
C27_HighFailureRate ==
    \A j \in Jobs :
        Completed(j) =>
            IF job[j].anomaly_error THEN WrittenBy(j).anomalies = <<>>
            ELSE C27_Flagged(WrittenBy(j))

\* No report of the week before is stored, and one failed request in five
\* is flagged with severity medium.
C27_Witness ==
    /\ Detected(1)
    /\ PriorReports(WrittenBy(1)) = {}
    /\ WrittenBy(1).totalRequests = 5
    /\ WrittenBy(1).failedRequests = 1
    /\ \E k \in AnomaliesOf(WrittenBy(1), "high_failure_rate") :
          WrittenBy(1).anomalies[k].severity = "medium"

(* C28: model imbalance *)

\* What the claim says of a report: a model_imbalance anomaly for a model,
\* of severity low and carrying the model and its percentage, if and only
\* if a prior report is stored and the model's count/total*100 is above 80.
C28_Imbalance(report) ==
    LET total == report.totalRequests
        entries == AnomaliesOf(report, "model_imbalance")
    IN /\ \A k \in entries :
             /\ report.anomalies[k].severity = "low"
             /\ report.anomalies[k].model \in DOMAIN report.requestsByModel
             /\ report.anomalies[k].percentage
                    = Percent(report.requestsByModel[
                                  report.anomalies[k].model], total)
             /\ \A l \in entries :
                   report.anomalies[l].model = report.anomalies[k].model
                       => l = k
       /\ \A model \in VALID_MODELS \cup DOMAIN report.requestsByModel :
             LET count == Get(report.requestsByModel, model, 0)
             IN (\E k \in entries : report.anomalies[k].model = model)
                <=> /\ PriorReports(report) # {}
                    /\ total > 0
                    /\ count * 100 > 80 * total

\* C28 as stated: every report of a run flags exactly the models above 80
\* percent when a prior report is stored.
C28_ImbalanceWheneverStored ==
    \A j \in Jobs : Completed(j) => C28_Imbalance(WrittenBy(j))

\* C28: the report of a run whose lookup of the prior report returned holds
\* a model_imbalance anomaly for a model, of severity low and carrying the
\* model and its percentage, if and only if a prior report is stored and the
\* model's count/total*100 is above 80; a share of exactly 80 percent is not
\* flagged, and without a prior report no model is flagged whatever the
\* distribution.  The report of a run whose lookup raised flags no model.
C28_ModelImbalance ==
    \A j \in Jobs :
        Completed(j) =>
            IF job[j].anomaly_error
            THEN AnomaliesOf(WrittenBy(j), "model_imbalance") = {}
            ELSE C28_Imbalance(WrittenBy(j))

\* Five requests of six are of one model, after a week with a report: the
\* model is flagged.
C28_Witness ==
    /\ Detected(1)
    /\ WrittenBy(1).totalRequests = 6
    /\ \E k \in AnomaliesOf(WrittenBy(1), "model_imbalance") :
          /\ WrittenBy(1).anomalies[k].model = "Model A"
          /\ WrittenBy(1).anomalies[k].percentage = Percent(5, 6)

(* C29: the write of a report run *)

\* A step of run j.
C29_StepOf(j) == job'[j].pc # job[j].pc

\* A step of a run leaves users, credit_transactions and generation_requests
\* alone; the step that completes it appends one report for its week to
\* weekly_reports and returns that report's id, and no other step of a run
\* changes weekly_reports.  No step at all changes or removes a report.
C29_WriteStep ==
    /\ Len(weekly_reports') >= Len(weekly_reports)
    /\ \A i \in DOMAIN weekly_reports : weekly_reports'[i] = weekly_reports[i]
    /\ \A j \in Jobs :
          C29_StepOf(j) =>
              /\ UNCHANGED <<users, credit_transactions, generation_requests>>
              /\ IF job'[j].pc = "done" /\ ~job'[j].raised
                 THEN /\ Len(weekly_reports') = Len(weekly_reports) + 1
                      /\ job'[j].result = Result(Len(weekly_reports'))
                      /\ weekly_reports'[Len(weekly_reports')].weekStartDate
                             = isoformat(job[j].start_date)
                 ELSE UNCHANGED weekly_reports

\* C29: the only store write of a report run is one new weekly_reports
\* document: every run that completes has added exactly one report, no
\* report is ever modified or deleted, and a run writes nothing to users,
\* credit_transactions or generation_requests; two runs for the same week
\* that complete, one after the other or interleaved, leave two separate
\* reports with the same weekStartDate.
C29_OneNewReport ==
    /\ [](/\ Len(weekly_reports) = Cardinality({j \in Jobs : Completed(j)})
          /\ \A j, k \in Jobs :
                (Completed(j) /\ Completed(k) /\ j # k) =>
                    /\ job[j].result.value # job[k].result.value
                    /\ job[j].start_date = job[k].start_date =>
                           WrittenBy(j).weekStartDate
                               = WrittenBy(k).weekStartDate)
    /\ [][C29_WriteStep]_vars

\* Two runs for the same week completed and left two reports of that week.
C29_Witness ==
    /\ Completed(1) /\ Completed(2)
    /\ job[1].start_date = job[2].start_date
    /\ Len(weekly_reports) = 2
    /\ weekly_reports[1].weekStartDate = weekly_reports[2].weekStartDate
    /\ weekly_reports[1].totalRequests > 0

(* C30: a failed scan *)

\* The step in which a query of the scan fails ends the run: the exception
\* is raised to the caller of scheduleWeeklyReport, no report id is returned
\* and weekly_reports is left as it was; afterwards the run takes no step.
C30_FailedScanStep ==
    \A j \in Jobs :
        /\ (job[j].e = "none" /\ job'[j].e \in {"requests", "transactions"}) =>
              /\ job'[j].pc = "done"
              /\ job'[j].raised
              /\ job'[j].result = NoResult
              /\ UNCHANGED weekly_reports
        /\ job[j].e \in {"requests", "transactions"} => job'[j] = job[j]

\* C30: when a store query fails while the requests or the transactions are
\* scanned, generate_weekly_report raises to its caller, the scheduled job
\* raises it again, and the run writes no report document: the reports
\* stored are those of the runs that completed.
C30_FailedScanRaises ==
    /\ [](/\ \A j \in Jobs :
                job[j].e \in {"requests", "transactions"} =>
                    job[j].pc = "done" /\ job[j].raised
                    /\ ~job[j].result.returned
          /\ \A i \in DOMAIN weekly_reports :
                \E j \in Jobs : Completed(j) /\ job[j].e = "none"
                                /\ job[j].result = Result(i))
    /\ [][C30_FailedScanStep]_vars

\* The scan of the requests failed in one run and the scan of the
\* transactions in another, and no report is stored.
C30_Witness ==
    /\ job[1].e = "requests" /\ job[1].raised
    /\ job[2].e = "transactions" /\ job[2].raised
    /\ job[2].total_requests > 0
    /\ weekly_reports = <<>>

(* C31: a failed lookup of the prior report *)

\* The step in which the lookup of the prior report fails neither ends the
\* run nor raises: the run goes on to write its report, with the counts and
\* sums it had and no anomaly.
C31_FailedLookupStep ==
    \A j \in Jobs :
        (~job[j].anomaly_error /\ job'[j].anomaly_error) =>
            /\ job'[j] = [job[j] EXCEPT !.anomaly_error = TRUE, !.pc = "save"]
            /\ job[j].anomalies = <<>>
            /\ UNCHANGED weekly_reports

\* C31: when the store query that looks up the prior report fails, the
\* error is caught inside anomaly detection and does not reach the caller:
\* the run goes on, and the report it writes carries the counts of the
\* window and an empty anomalies list.  An exception that reaches the caller
\* of such a run is that of the report's own write.
C31_LookupFailureCaught ==
    /\ [](\A j \in Jobs :
            job[j].anomaly_error =>
                /\ job[j].raised => job[j].e = "report"
                /\ Completed(j) =>
                      LET report == WrittenBy(j)
                      IN /\ report.anomalies = <<>>
                         /\ report.totalRequests
                                = Cardinality(C23_InWindow(report))
                         /\ report.successfulRequests
                                = Cardinality(C23_WithStatus(report,
                                                             "completed"))
                         /\ report.failedRequests
                                = Cardinality(C23_WithStatus(report, "failed"))
                         /\ report.totalCreditsConsumed
                                = C22_Credits("deduction",
                                              report.weekStartDate.iso,
                                              report.weekEndDate.iso,
                                              Len(credit_transactions)))
    /\ [][C31_FailedLookupStep]_vars

\* The lookup failed in a run over two failed requests of three, with the
\* report of the week before stored: the report is written without anomaly.
C31_Witness ==
    /\ Completed(1) /\ job[1].anomaly_error
    /\ PriorReports(WrittenBy(1)) # {}
    /\ WrittenBy(1).totalRequests = 3
    /\ WrittenBy(1).failedRequests = 2
    /\ WrittenBy(1).anomalies = <<>>

\* C32: get_credit_cost returns 1, 3 and 4 for the sizes 512x512, 1024x1024
\* and 1024x1792 and None for every other size string, and every body that
\* validation accepts carries one of these three sizes, so that the cost
\* compared with the balance is a defined positive number.
C32_CostsAndAcceptedSizes ==
    LET size == client.data.size
        cost == client.credit_cost.value
    IN /\ client.credit_cost.returned =>
            /\ Raw(size) = "512x512" => cost = Some(1)
            /\ Raw(size) = "1024x1024" => cost = Some(3)
            /\ Raw(size) = "1024x1792" => cost = Some(4)
            /\ Raw(size) \notin {"512x512", "1024x1024", "1024x1792"} =>
                   cost = None
       /\ (client.validation_result.returned
             /\ client.validation_result.value = Valid) =>
            /\ size.kind = "str"
            /\ Raw(size) \in {"512x512", "1024x1024", "1024x1792"}
            /\ client.credit_cost.returned =>
                   (cost # None /\ cost.value > 0)

C32_Witness ==
    /\ client.pc = "done"
    /\ client.validation_result.value = Valid
    /\ Raw(client.data.size) = "1024x1792"
    /\ client.credit_cost = Result(Some(4))

\* C33: of a body whose other fields are valid, validation accepts a prompt
\* whose length after stripping the surrounding whitespace is exactly 1000,
\* rejects one of length 1001 as too long, and rejects an empty or
\* whitespace-only prompt as empty.
C33_PromptLength ==
    LET data == client.data
        result == client.validation_result.value
        others_valid ==
            /\ DOMAIN data = DOMAIN ValidPayload("u1", "512x512")
            /\ data.userId.kind = "str" /\ data.userId.len > 0
            /\ In(data.model, VALID_MODELS)
            /\ In(data.style, VALID_STYLES)
            /\ In(data.color, VALID_COLORS)
            /\ In(data.size, VALID_SIZES)
            /\ data.prompt.kind = "str"
    IN (client.validation_result.returned /\ others_valid) =>
          /\ data.prompt.len = 1000 => result = Valid
          /\ data.prompt.len = 1001 =>
                result = Invalid("Prompt must be less than 1000 characters")
          /\ data.prompt.len = 0 => result = Invalid("Prompt cannot be empty")

C33_Witness ==
    /\ client.validation_result = Result(Valid)
    /\ client.data.prompt = PaddedPrompt(1000, MaxPad)
    /\ client.data.userId = Padded("u1", 1)

\* The part of a stored balance that charges and refunds do not account for.
C34_Granted(u) == Balance(u) - Total("refund", u) + Total("deduction", u)

\* The credits of the one create_user_with_credits call made for u: its
\* argument while it runs, its credit record once it has returned True.
C34_Initial(u) ==
    IF creator.pc = "record" /\ creator.user_id = u
    THEN creator.initial_credits
    ELSE Total("credit", u)

\* No step of a handler, charge or refund, changes what C34_Granted reads.
C34_NoLostUpdate ==
    ~(creator.pc = "idle" /\ creator'.pc = "record") =>
        \A u \in Users : C34_Granted(u)' = C34_Granted(u)

\* C34: once create_user_with_credits has been called exactly once, the
\* stored balance of every user equals the initial credits of that call plus
\* the user's refund records minus the user's deduction records, during the
\* call and after it has returned True; and no step other than the account
\* write of create_user_with_credits moves a balance without the matching
\* refund or deduction record, whatever the interleaving of the handlers.
C34_BalanceIsInitialPlusLedger ==
    /\ []((creator.calls = 1 /\ (creator.pc = "record" \/ creator.result = "True"))
            => \A u \in Users : C34_Granted(u) = C34_Initial(u))
    /\ [][C34_NoLostUpdate]_vars

C34_Witness ==
    /\ creator.calls = 1 /\ creator.result = "True"
    /\ \A h \in Handlers : handler[h].pc = "done" /\ handler[h].user_id = "u1"
    /\ Cardinality({i \in DOMAIN credit_transactions :
           credit_transactions[i].type = "deduction"}) = 2
    /\ Cardinality({i \in DOMAIN credit_transactions :
           credit_transactions[i].type = "refund"}) = 1
    /\ Total("credit", "u1") = MaxInitialCredits
    /\ Total("refund", "u1") > 0
    /\ Balance("u1") = MaxInitialCredits + Total("refund", "u1")
                      - Total("deduction", "u1")

\* C35: whenever a handler has returned and the record of its request
\* exists, that record's status is completed or failed.
C35_NoPendingAfterReturn ==
    \A h \in Handlers :
        (handler[h].pc = "done" /\ generation_requests[h].exists) =>
            generation_requests[h].status \in {"completed", "failed"}

\* The requests that have a refund record.
C36_Refunded(log) ==
    {log[i].generationRequestId :
        i \in {k \in DOMAIN log : log[k].type = "refund"}}

\* C36: in every state, a request that has a refund record has a record of
\* status failed, and the step that commits the refund finds that status
\* already written.
C36_FailedBeforeRefund ==
    /\ [](\A r \in C36_Refunded(credit_transactions) :
             /\ generation_requests[r].exists
             /\ generation_requests[r].status = "failed")
    /\ [][\A r \in C36_Refunded(credit_transactions') :
             r \notin C36_Refunded(credit_transactions) =>
                /\ generation_requests[r].exists
                /\ generation_requests[r].status = "failed"
                /\ UNCHANGED generation_requests]_vars

C36_Witness ==
    \E h \in Handlers :
        /\ handler[h].pc = "done"
        /\ handler[h].refunded = "True"
        /\ h \in C36_Refunded(credit_transactions)
        /\ generation_requests[h].status = "failed"
        /\ handler[h].gateway = "error"

\* C37: a handler answers 402 only in a step at which the stored balance of
\* its user is below the credit cost of the request.
C37_Only402BelowCost ==
    [][\A h \in Handlers :
          (handler[h].pc = "idle" /\ handler'[h].response.status = 402) =>
              Balance(handler'[h].user_id) < handler'[h].credit_cost]_vars

\* The fields of the account document that create_user_with_credits writes
\* for an email argument.
C38_Fields(email) ==
    IF email \in {None, Some("")} THEN {"exists", "credits"}
    ELSE {"exists", "credits", "email"}

\* The account write and the record write of a call on an existing account.
C38_OverwriteStep ==
    LET u == creator'.user_id
        c == creator'.initial_credits
        n == Len(credit_transactions)
    IN /\ (creator.pc = "idle" /\ creator'.pc = "record" /\ users[u].exists) =>
              /\ users'[u].credits = c
              /\ DOMAIN users'[u] = C38_Fields(creator'.email)
              /\ "email" \in DOMAIN users'[u] =>
                     users'[u].email = creator'.email.value
              /\ \A v \in Users \ {u} : users'[v] = users[v]
              /\ UNCHANGED credit_transactions
       /\ (creator.pc = "record" /\ creator'.result = "True") =>
              /\ credit_transactions' =
                     Append(credit_transactions,
                            Stamped(CreditTransaction(creator.user_id, "credit",
                                        creator.initial_credits, NoRequestId),
                                    Now(credit_transactions)))
              /\ UNCHANGED users

\* C38: create_user_with_credits(user, c) on an account that exists replaces
\* the account document: the balance becomes c whatever it was, an email
\* stored before is gone unless an email is passed again, and the call that
\* returns True has appended one more credit record of c.
C38_CreateOverwrites == [][C38_OverwriteStep]_vars

C38_Witness ==
    /\ creator.calls = 2 /\ creator.pc = "idle" /\ creator.result = "True"
    /\ client.pc = "refund_commit" /\ ~client.tx_valid
    /\ client.read.exists
    /\ "email" \in DOMAIN client.read
    /\ client.read.credits < MaxInitialCredits
    /\ users[client.user_id] = UserDoc(MaxInitialCredits)
    /\ Cardinality({i \in DOMAIN credit_transactions :
           /\ credit_transactions[i].type = "credit"
           /\ credit_transactions[i].userId = client.user_id}) = 2
    /\ Total("deduction", client.user_id) > 0

RECURSIVE C39_Sum(_, _)
\* The sum of the counts of a breakdown over some of its labels.
C39_Sum(d, labels) ==
    IF labels = {} THEN 0
    ELSE LET l == CHOOSE l \in labels : TRUE
         IN d[l] + C39_Sum(d, labels \ {l})

\* The requests in the window of a report that carry no such attribute.
C39_Absent(report, field) ==
    {i \in C23_InWindow(report) : field \notin DOMAIN generation_requests[i]}

\* What the claim says of one stored report.
C39_Consistent(report) ==
    /\ report.successfulRequests + report.failedRequests
           <= report.totalRequests
    /\ \A d \in {report.requestsByModel, report.requestsBySize,
                 report.requestsByStyle, report.requestsByColor} :
           C39_Sum(d, DOMAIN d) = report.totalRequests
    /\ Cardinality(AnomaliesOf(report, "model_imbalance")) <= 1

\* C39: in every stored report successfulRequests + failedRequests is at most
\* totalRequests, each of requestsByModel, requestsBySize, requestsByStyle and
\* requestsByColor sums to totalRequests, and at most one model_imbalance
\* anomaly is listed; in the report of a run the label Unknown of each
\* breakdown counts the window's requests that lack the attribute.
C39_ReportConsistent ==
    /\ \A i \in DOMAIN weekly_reports : C39_Consistent(weekly_reports[i])
    /\ \A j \in Jobs :
          Completed(j) =>
              LET report == WrittenBy(j)
              IN /\ Get(report.requestsByModel, "Unknown", 0)
                        = Cardinality(C39_Absent(report, "model"))
                 /\ Get(report.requestsBySize, "Unknown", 0)
                        = Cardinality(C39_Absent(report, "size"))
                 /\ Get(report.requestsByStyle, "Unknown", 0)
                        = Cardinality(C39_Absent(report, "style"))
                 /\ Get(report.requestsByColor, "Unknown", 0)
                        = Cardinality(C39_Absent(report, "color"))

\* A report over nine requests of Model A and one without attributes: the
\* breakdowns count ten, one of them under Unknown, and Model A is the one
\* model_imbalance.
C39_Witness ==
    /\ Completed(1)
    /\ WrittenBy(1).totalRequests = 10
    /\ WrittenBy(1).requestsByModel = ("Model A" :> 9) @@ ("Unknown" :> 1)
    /\ Get(WrittenBy(1).requestsByStyle, "Unknown", 0) = 1
    /\ Cardinality(AnomaliesOf(WrittenBy(1), "model_imbalance")) = 1

\* C40: in the report of a run, a request_volume_spike anomaly compares the
\* report's total c with the total p > 0 of a stored report of the week
\* before, and its severity is high only when c > 2p: for c < p, down to
\* c = 0, it is medium; and when c differs from p by exactly half of p, no
\* request_volume_spike is listed.
C40_SpikeSeverity ==
    \A j \in Jobs :
        Completed(j) =>
            LET report == WrittenBy(j)
                c == report.totalRequests
                spikes == AnomaliesOf(report, "request_volume_spike")
            IN /\ \A k \in spikes :
                     LET spike == report.anomalies[k]
                         p == spike.previousValue
                     IN /\ spike.currentValue = c
                        /\ p > 0
                        /\ \E i \in PriorReports(report) :
                               weekly_reports[i].totalRequests = p
                        /\ spike.severity \in {"medium", "high"}
                        /\ spike.severity = "high" => c > 2 * p
                        /\ c < p => spike.severity = "medium"
               /\ \A i \in PriorReports(report) :
                     2 * Abs(c - weekly_reports[i].totalRequests)
                         = weekly_reports[i].totalRequests => spikes = {}

\* A week without requests after a week of two: the drop of 100 percent is
\* listed with severity medium.
C40_Witness ==
    /\ Completed(1)
    /\ WrittenBy(1).totalRequests = 0
    /\ \E k \in AnomaliesOf(WrittenBy(1), "request_volume_spike") :
          /\ WrittenBy(1).anomalies[k].previousValue = 2
          /\ WrittenBy(1).anomalies[k].severity = "medium"

====
